---- MODULE Spec2Model ----
(***************************************************************************)
(* Model of sella/internal/int_classes.pyx: the internal-coordinate engine *)
(* CartToInternal, its subclass Constraints and the second-derivative      *)
(* handle D2q.                                                             *)
(*                                                                         *)
(* Numbers.  The program computes in IEEE doubles; the model computes in   *)
(* integers.  A position component is an integer lattice coordinate, a     *)
(* length is a fixed-point number with LenUnit steps per lattice unit, an  *)
(* angle is a whole number of degrees (PI = 180).  The lattice geometries  *)
(* are chosen so that the angles that occur are whole degrees.             *)
(*                                                                         *)
(* int_eval (cart_to_bond, cart_to_angle, cart_to_dihedral) and            *)
(* utilities.math (vec_sum, mgs, mppi, cross, normalize) are not part of   *)
(* the source file; they are modelled from the specification's text.       *)
(***************************************************************************)
EXTENDS Integers, Sequences, FiniteSets, TLC

VARIABLES cfg, eng, call, held

vars == <<cfg, eng, call, held>>

\* ------------------------------------------------------------------ bounds

\* The regular geometry is offered moved by 0..MaxShift lattice steps.
MaxShift == 1

\* Accessor calls made on one object in one run.
MaxCalls == 2

\* ------------------------------------------------------------- constants

\* libc.math pi, in degrees.
PI == 180

\* Fixed-point steps per lattice unit of length.
LenUnit == 10

\* ---------------------------------------------------------- vector algebra

Vec(x, y, z) == <<x, y, z>>

ZeroVec == <<0, 0, 0>>

VSub(a, b) == <<a[1] - b[1], a[2] - b[2], a[3] - b[3]>>

VAdd(a, b) == <<a[1] + b[1], a[2] + b[2], a[3] + b[3]>>

VScale(s, a) == <<s * a[1], s * a[2], s * a[3]>>

VDot(a, b) == a[1] * b[1] + a[2] * b[2] + a[3] * b[3]

\* utilities.math.cross
cross(a, b) ==
    <<a[2] * b[3] - a[3] * b[2], a[3] * b[1] - a[1] * b[3], a[1] * b[2] - a[2] * b[1]>>

Norm2(a) == VDot(a, a)

Abs(x) == IF x < 0 THEN -x ELSE x

Min(a, b) == IF a < b THEN a ELSE b

Max(a, b) == IF a < b THEN b ELSE a

\* Fixed-point square root: the length whose square is n2, in LenUnit steps.
FixSqrt(n2) ==
    CHOOSE k \in 0..(LenUnit * (n2 + 1)) :
        k * k <= LenUnit * LenUnit * n2 /\ LenUnit * LenUnit * n2 < (k + 1) * (k + 1)

\* Sum of a sequence of integers.
RECURSIVE SeqSum(_)
SeqSum(s) == IF s = <<>> THEN 0 ELSE Head(s) + SeqSum(Tail(s))

\* Greatest common divisor of two naturals.
RECURSIVE Gcd(_, _)
Gcd(a, b) == IF b = 0 THEN a ELSE Gcd(b, a % b)

\* An integer row divided by the greatest common divisor of its entries.
Reduced(row) ==
    LET RECURSIVE G(_)
        G(t) == IF t = 0 THEN 0 ELSE Gcd(Abs(row[t]), G(t - 1))
        g == G(Len(row))
    IN IF g <= 1 THEN row ELSE [t \in 1..Len(row) |-> row[t] \div g]

\* Rank of an integer matrix (a sequence of equally long rows) by
\* fraction-free elimination on column col onwards.
RECURSIVE RankFrom(_, _, _)
RankFrom(rows, col, ncols) ==
    IF rows = <<>> \/ col > ncols THEN 0
    ELSE LET piv == {i \in 1..Len(rows) : rows[i][col] # 0}
         IN IF piv = {} THEN RankFrom(rows, col + 1, ncols)
            ELSE LET p == CHOOSE i \in piv : \A j \in piv : i <= j
                     pr == rows[p]
                     rest == [i \in 1..(Len(rows) - 1) |->
                                LET r == rows[IF i < p THEN i ELSE i + 1]
                                IN Reduced([c \in 1..ncols |-> pr[col] * r[c] - r[col] * pr[c]])]
                 IN 1 + RankFrom(rest, col + 1, ncols)

Rank(rows, ncols) == RankFrom(rows, 1, ncols)

\* ------------------------------------------------------------ construction

\* One row of a (natoms x 3) array, all zero.
ZeroRow(natoms) == [a \in 1..natoms |-> ZeroVec]

\* sqrt(1. / natoms) in fixed point, JacUnit steps per unit.
JacUnit == 100

InvSqrtFix(n) ==
    CHOOSE k \in 0..JacUnit : k * k * n <= JacUnit * JacUnit /\ JacUnit * JacUnit < (k + 1) * (k + 1) * n

\* CartToInternal.__cinit__: the sizes and index lists of an engine built
\* from the constructor arguments a.
CartToInternal_cinit(a) ==
    LET natoms == a.nreal + a.ndummies
    IN [kind |-> a.kind,
        nreal |-> a.nreal,
        ndummies |-> a.ndummies,
        natoms |-> natoms,
        nx |-> 3 * natoms,
        cart |-> a.cart, ncart |-> Len(a.cart),
        bonds |-> a.bonds, nbonds |-> Len(a.bonds),
        angles |-> a.angles, nangles |-> Len(a.angles),
        dihedrals |-> a.dihedrals, ndihedrals |-> Len(a.dihedrals),
        angle_sums |-> a.angle_sums, nangle_sums |-> Len(a.angle_sums),
        angle_diffs |-> a.angle_diffs, nangle_diffs |-> Len(a.angle_diffs),
        nq |-> Len(a.cart) + Len(a.bonds) + Len(a.angles)
               + Len(a.dihedrals) + Len(a.angle_sums) + Len(a.angle_diffs)]

\* Number of periodic axes, atoms.pbc.sum().
NPbc(pbc) == Cardinality({j \in 1..3 : pbc[j]})

\* Constraints.__cinit__, rotation part: (proj_rot, nrot) after the
\* periodicity switch and the fixed-atom switch.
RotSetup(proj_rot, npbc, ncart) ==
    LET first == IF proj_rot
                 THEN IF npbc = 0 THEN [proj_rot |-> TRUE, nrot |-> 3, warned |-> FALSE]
                      ELSE IF npbc = 1 THEN [proj_rot |-> TRUE, nrot |-> 1, warned |-> FALSE]
                      ELSE [proj_rot |-> FALSE, nrot |-> 0, warned |-> FALSE]
                 ELSE [proj_rot |-> FALSE, nrot |-> 0, warned |-> FALSE]
    IN IF first.nrot > 0 /\ ncart > 0
       THEN [proj_rot |-> FALSE, nrot |-> 0, warned |-> TRUE]
       ELSE first

\* atoms.cell of every Atoms object handed to a constructor: three cell
\* vectors, each parallel to its axis.
Cell == <<Vec(2, 0, 0), Vec(0, 3, 0), Vec(0, 0, 4)>>

\* utilities.math.normalize: v divided by its length (for a vector
\* parallel to an axis the length is the sum of the absolute components).
normalize(v) ==
    LET len == Abs(v[1]) + Abs(v[2]) + Abs(v[3])
    IN IF len = 0 THEN v ELSE [x \in 1..3 |-> v[x] \div len]

Eye3 == <<Vec(1, 0, 0), Vec(0, 1, 0), Vec(0, 0, 1)>>

\* What the build makes of atoms.cell[dim, :], where dim is the truth value
\* True taken from atoms.pbc: the row with index 1 (TRUE), or an array that
\* does not fit one row of rot_axes, so that the assignment raises (FALSE).
\* The statement runs only for one periodic axis with proj_rot requested.
IndexOutcomes(a) ==
    IF a.kind = "cons" /\ a.proj_rot /\ NPbc(a.pbc) = 1 THEN BOOLEAN ELSE {TRUE}

\* Constraints.__cinit__, the rotation axes: the identity, its first row
\* replaced for one periodic axis by the normalised row of the cell that
\* the index dim selects (the same row for each periodic axis).
RotAxes_cinit(proj_rot, npbc) ==
    IF proj_rot /\ npbc = 1 THEN [Eye3 EXCEPT ![1] = normalize(Cell[2])] ELSE Eye3

\* Constraints.__init__: "if self.proj_rot: self.rot_axes = eye(3)".
RotAxes_init(proj_rot, axes) == IF proj_rot THEN Eye3 ELSE axes

\* A translation setup that sets every direction a request asks for and
\* never clears one.
TransAll(proj_trans, cart) ==
    [j \in 1..3 |-> proj_trans]

\* Constraints.__cinit__, translation part: trans_dirs[j] is set for every
\* axis when proj_trans, and cleared for the axis of every cart coordinate.
TransDirs(proj_trans, cart) ==
    [j \in 1..3 |-> proj_trans /\ ~(\E n \in 1..Len(cart) : cart[n][1] + 1 = j)]

\* The axes with a translation vector, in increasing order.
RECURSIVE TransAxes(_, _)
TransAxes(dirs, j) ==
    IF j > 3 THEN <<>>
    ELSE (IF dirs[j] THEN <<j>> ELSE <<>>) \o TransAxes(dirs, j + 1)

\* tvecs: three rows of natoms x 3; row t carries invsqrtnat on the axis of
\* the t-th translation direction for every atom, the unused rows are zero.
TVecs(dirs, natoms) ==
    LET axes == TransAxes(dirs, 1)
    IN [t \in 1..3 |->
          IF t <= Len(axes)
          THEN [a \in 1..natoms |->
                  [j \in 1..3 |-> IF j = axes[t] THEN InvSqrtFix(natoms) ELSE 0]]
          ELSE ZeroRow(natoms)]

\* Constraints.__cinit__ on top of the base sizes c.
Constraints_cinit(c, a, byrow) ==
    LET rot == RotSetup(a.proj_rot, NPbc(a.pbc), c.ncart)
        dirs == TransDirs(a.proj_trans, c.cart)
        ntrans == Len(TransAxes(dirs, 1))
    IN [c EXCEPT !.nq = c.nq + rot.nrot + ntrans]
       @@ [target |-> [i \in 1..c.nq |-> IF i <= Len(a.target) THEN a.target[i] ELSE 0],
           proj_rot |-> rot.proj_rot,
           nrot |-> rot.nrot,
           trans_dirs |-> dirs,
           tvecs |-> TVecs(dirs, c.natoms),
           ntrans |-> ntrans,
           proj_trans |-> (a.proj_trans /\ ntrans # 0),
           ninternal |-> c.nq,
           warned |-> rot.warned,
           built |-> (a.proj_rot /\ NPbc(a.pbc) = 1) => byrow,
           rot_axes |-> RotAxes_init(rot.proj_rot,
                                     RotAxes_cinit(a.proj_rot, NPbc(a.pbc)))]

\* The fields a base engine does not have, in their neutral values, so that
\* every configuration is a record of one shape.
BaseExtras(c) ==
    [target |-> <<>>, proj_rot |-> FALSE, nrot |-> 0,
     trans_dirs |-> [j \in 1..3 |-> FALSE], tvecs |-> TVecs([j \in 1..3 |-> FALSE], c.natoms),
     ntrans |-> 0, proj_trans |-> FALSE, ninternal |-> c.nq,
     warned |-> FALSE, built |-> TRUE, rot_axes |-> Eye3]

\* The configuration of a constructed object.
Construct(a, byrow) ==
    LET c == CartToInternal_cinit(a)
        d == IF a.kind = "cons" THEN Constraints_cinit(c, a, byrow) ELSE c @@ BaseExtras(c)
    IN d @@ [nmin |-> Min(d.nq, d.nx), nmax |-> Max(d.nq, d.nx), args |-> a]

\* --------------------------------------------------------------- evaluator
\* The per-family formulas live in sella.internal.int_eval, which
\* the engine calls with the displacement vectors it has formed.  An
\* evaluation yields a status, the value, the gradient row (natoms x 3) and
\* the local second-derivative block (k x 3 x k x 3).  Derivative entries are
\* integers: each is the exact derivative up to the positive factor its
\* normalisation divides by.  The gradient is filled when grad or curv is
\* asked for, the block when curv is.

\* arccos of dot / sqrt(den2), in degrees.
AcosDeg(dot, den2) ==
    LET d2 == dot * dot
        acute == IF d2 = den2 THEN 0
                 ELSE IF 4 * d2 = 3 * den2 THEN 30
                 ELSE IF 2 * d2 = den2 THEN 45
                 ELSE IF 4 * d2 = den2 THEN 60
                 ELSE IF d2 = 0 THEN 90
                 ELSE IF 4 * d2 > 3 * den2 THEN 15
                 ELSE IF 2 * d2 > den2 THEN 37
                 ELSE IF 4 * d2 > den2 THEN 52
                 ELSE 75
    IN IF dot >= 0 THEN acute ELSE PI - acute

\* atan2(ys / sqrt(b2), x), in degrees, in (-PI, PI].
Atan2Deg(ys, b2, x) ==
    LET y2 == ys * ys
        x2 == x * x * b2
        base == IF y2 = 0 THEN 0
                ELSE IF x2 = 0 THEN 90
                ELSE IF y2 = x2 THEN 45
                ELSE IF 3 * y2 = x2 THEN 30
                ELSE IF y2 = 3 * x2 THEN 60
                ELSE IF 3 * y2 < x2 THEN 15
                ELSE IF y2 < x2 THEN 37
                ELSE IF y2 < 3 * x2 THEN 52
                ELSE 75
        mag == IF x >= 0 THEN base ELSE PI - base
    IN IF ys < 0 THEN -mag ELSE mag

\* A gradient row: the vector gs[t] on atom atoms[t] (0-based), zero elsewhere.
GradRow(natoms, atoms, gs) ==
    [a \in 1..natoms |->
        LET hit == {t \in 1..Len(atoms) : atoms[t] + 1 = a}
        IN IF hit = {} THEN ZeroVec ELSE gs[CHOOSE t \in hit : TRUE]]

ZeroBlock(k) == [a \in 1..k |-> [i \in 1..3 |-> [b \in 1..k |-> [j \in 1..3 |-> 0]]]]

\* The block whose (a, i, b, j) entry is gs[a][i] * gs[b][j].
OuterBlock(gs) ==
    LET k == Len(gs)
    IN [a \in 1..k |-> [i \in 1..3 |-> [b \in 1..k |-> [j \in 1..3 |-> gs[a][i] * gs[b][j]]]]]

EvalResult(info, q, dq, d2q) == [info |-> info, q |-> q, dq |-> dq, d2q |-> d2q]

\* int_eval.cart_to_bond: the length of dx = pos[j] - pos[i].
cart_to_bond(natoms, i, j, dx, grad, curv) ==
    LET r2 == Norm2(dx)
        gs == <<VScale(-1, dx), dx>>
        sg == <<-1, 1>>
    IN IF r2 = 0 THEN EvalResult(-1, 0, ZeroRow(natoms), ZeroBlock(2))
       ELSE EvalResult(0, FixSqrt(r2),
              IF grad \/ curv THEN GradRow(natoms, <<i, j>>, gs) ELSE ZeroRow(natoms),
              IF curv
              THEN [a \in 1..2 |-> [c \in 1..3 |-> [b \in 1..2 |-> [d \in 1..3 |->
                      sg[a] * sg[b] * ((IF c = d THEN r2 ELSE 0) - dx[c] * dx[d])]]]]
              ELSE ZeroBlock(2))

\* int_eval.cart_to_angle: the angle at j between the bonds to i and to k,
\* from dx1 = pos[j] - pos[i] and dx2 = pos[k] - pos[j].
cart_to_angle(natoms, i, j, k, dx1, dx2, grad, curv) ==
    LET u == VScale(-1, dx1)
        n == cross(u, dx2)
        gi == cross(u, n)
        gk == cross(n, dx2)
        gs == <<gi, VScale(-1, VAdd(gi, gk)), gk>>
    IN IF Norm2(dx1) = 0 \/ Norm2(dx2) = 0 \/ ((grad \/ curv) /\ n = ZeroVec)
       THEN EvalResult(-1, 0, ZeroRow(natoms), ZeroBlock(3))
       ELSE EvalResult(0, AcosDeg(VDot(u, dx2), Norm2(u) * Norm2(dx2)),
              IF grad \/ curv THEN GradRow(natoms, <<i, j, k>>, gs) ELSE ZeroRow(natoms),
              IF curv THEN OuterBlock(gs) ELSE ZeroBlock(3))

\* int_eval.cart_to_dihedral: the signed angle between the half-planes of
\* the chain i-j-k-l, from its three bond vectors.
cart_to_dihedral(natoms, i, j, k, l, dx1, dx2, dx3, grad, curv) ==
    LET n1 == cross(dx1, dx2)
        n2 == cross(dx2, dx3)
        gs == <<VScale(-1, n1), n1, VScale(-1, n2), n2>>
    IN IF n1 = ZeroVec \/ n2 = ZeroVec
       THEN EvalResult(-1, 0, ZeroRow(natoms), ZeroBlock(4))
       ELSE EvalResult(0, Atan2Deg(VDot(cross(n1, n2), dx2), Norm2(dx2), VDot(n1, n2)),
              IF grad \/ curv THEN GradRow(natoms, <<i, j, k, l>>, gs) ELSE ZeroRow(natoms),
              IF curv THEN OuterBlock(gs) ELSE ZeroBlock(4))

\* ------------------------------------------------------------- base engine

\* A combination of the two angles that puts the block of the second
\* angle on the atoms of the first.
angle_sum_same_map(natoms, pos, indices, sign, grad, curv) ==
    LET i == indices[1]
        j == indices[2]
        k == indices[3]
        l == indices[4]
        dx2 == VSub(pos[l + 1], pos[j + 1])
        first == cart_to_angle(natoms, i, j, l, VSub(pos[j + 1], pos[i + 1]), dx2, grad, curv)
        second == cart_to_angle(natoms, k, j, l, VSub(pos[j + 1], pos[k + 1]), dx2, grad, curv)
        Host(blk, A, c, B, d) ==
            IF A # 3 /\ B # 3
            THEN blk[IF A = 4 THEN 3 ELSE A][c][IF B = 4 THEN 3 ELSE B][d]
            ELSE 0
    IN IF second.info # 0
       THEN EvalResult(second.info, first.q, first.dq, ZeroBlock(4))
       ELSE EvalResult(0,
              first.q + sign * second.q,
              IF grad \/ curv
              THEN [a \in 1..natoms |-> VAdd(first.dq[a], VScale(sign, second.dq[a]))]
              ELSE first.dq,
              IF curv
              THEN [A \in 1..4 |-> [c \in 1..3 |-> [B \in 1..4 |-> [d \in 1..3 |->
                      Host(first.d2q, A, c, B, d) + sign * Host(second.d2q, A, c, B, d)]]]]
              ELSE ZeroBlock(4))

\* CartToInternal._angle_sum_diff: the angle (i, j, l) plus sign times the
\* angle (k, j, l).  The status of the first evaluation is stored and never
\* read; the status of the second is returned when it is not zero.
_angle_sum_diff(natoms, pos, indices, sign, grad, curv) ==
    LET i == indices[1]
        j == indices[2]
        k == indices[3]
        l == indices[4]
        dx2 == VSub(pos[l + 1], pos[j + 1])
        \* host atom slot (1-based) of each local atom of the two angles
        m1 == <<1, 2, 4>>
        m2 == <<3, 2, 4>>
        Part(blk, m, A, c, B, d) ==
            IF (\E a \in 1..3 : m[a] = A) /\ (\E b \in 1..3 : m[b] = B)
            THEN blk[CHOOSE a \in 1..3 : m[a] = A][c][CHOOSE b \in 1..3 : m[b] = B][d]
            ELSE 0
        Combine(first, second) ==
            IF second.info # 0
            THEN EvalResult(second.info, first.q, first.dq, ZeroBlock(4))
            ELSE EvalResult(0,
                   first.q + sign * second.q,
                   IF grad \/ curv
                   THEN [a \in 1..natoms |-> VAdd(first.dq[a], VScale(sign, second.dq[a]))]
                   ELSE first.dq,
                   IF curv
                   THEN [A \in 1..4 |-> [c \in 1..3 |-> [B \in 1..4 |-> [d \in 1..3 |->
                           Part(first.d2q, m1, A, c, B, d)
                           + sign * Part(second.d2q, m2, A, c, B, d)]]]]
                   ELSE ZeroBlock(4))
    IN Combine(cart_to_angle(natoms, i, j, l, VSub(pos[j + 1], pos[i + 1]), dx2, grad, curv),
               cart_to_angle(natoms, k, j, l, VSub(pos[j + 1], pos[k + 1]), dx2, grad, curv))

\* The families in evaluation order, with the number of the first
\* coordinate of each (0-based offset m of the source).
Families == <<"cart", "bonds", "angles", "dihedrals", "angle_sums", "angle_diffs">>

FamCount(c, f) ==
    CASE f = "cart" -> c.ncart
      [] f = "bonds" -> c.nbonds
      [] f = "angles" -> c.nangles
      [] f = "dihedrals" -> c.ndihedrals
      [] f = "angle_sums" -> c.nangle_sums
      [] f = "angle_diffs" -> c.nangle_diffs

FamList(c, f) ==
    CASE f = "cart" -> c.cart
      [] f = "bonds" -> c.bonds
      [] f = "angles" -> c.angles
      [] f = "dihedrals" -> c.dihedrals
      [] f = "angle_sums" -> c.angle_sums
      [] f = "angle_diffs" -> c.angle_diffs

FamStart(c, f) ==
    CASE f = "cart" -> 0
      [] f = "bonds" -> c.ncart
      [] f = "angles" -> c.ncart + c.nbonds
      [] f = "dihedrals" -> c.ncart + c.nbonds + c.nangles
      [] f = "angle_sums" -> c.ncart + c.nbonds + c.nangles + c.ndihedrals
      [] f = "angle_diffs" -> c.ncart + c.nbonds + c.nangles + c.ndihedrals + c.nangle_sums

\* Number of coordinates the evaluation loops of _update run over.
NEval(c) == FamStart(c, "angle_diffs") + c.nangle_diffs

\* Family of coordinate number n (1-based).
FamOf(c, n) ==
    CHOOSE f \in {Families[t] : t \in 1..6} :
        FamStart(c, f) < n /\ n <= FamStart(c, f) + FamCount(c, f)

\* CartToInternal._update, the body of one pass of the loop of a family:
\* the evaluation of coordinate number n (1-based) at the snapshot pos.
EvalCoord(c, pos, n, grad, curv) ==
    LET f == FamOf(c, n)
        ix == FamList(c, f)[n - FamStart(c, f)]
    IN CASE f = "cart" ->
              EvalResult(0, pos[ix[2] + 1][ix[1] + 1],
                  [a \in 1..c.natoms |-> [x \in 1..3 |->
                      IF a = ix[2] + 1 /\ x = ix[1] + 1 THEN 1 ELSE 0]],
                  <<>>)
         [] f = "bonds" ->
              cart_to_bond(c.natoms, ix[1], ix[2],
                  VSub(pos[ix[2] + 1], pos[ix[1] + 1]), grad, curv)
         [] f = "angles" ->
              cart_to_angle(c.natoms, ix[1], ix[2], ix[3],
                  VSub(pos[ix[2] + 1], pos[ix[1] + 1]),
                  VSub(pos[ix[3] + 1], pos[ix[2] + 1]), grad, curv)
         [] f = "dihedrals" ->
              cart_to_dihedral(c.natoms, ix[1], ix[2], ix[3], ix[4],
                  VSub(pos[ix[2] + 1], pos[ix[1] + 1]),
                  VSub(pos[ix[3] + 1], pos[ix[2] + 1]),
                  VSub(pos[ix[4] + 1], pos[ix[3] + 1]), grad, curv)
         [] f = "angle_sums" -> _angle_sum_diff(c.natoms, pos, ix, 1, grad, curv)
         [] f = "angle_diffs" -> _angle_sum_diff(c.natoms, pos, ix, -1, grad, curv)

\* Number of atoms of a coordinate of family f.
FamAtoms(f) ==
    CASE f = "cart" -> 1
      [] f = "bonds" -> 2
      [] f = "angles" -> 3
      [] OTHER -> 4

\* The second-derivative blocks of family f, all zero (after memset).
ZeroBlocks(c, f) == [t \in 1..FamCount(c, f) |-> ZeroBlock(FamAtoms(f))]

\* Constraints.__cinit__, "Ured is fixed, so we initialize it here": nx rows
\* and nx - ncart columns; the components no cart entry pins, in order, get
\* a one in the next column.
Ured_cinit(c) ==
    LET fixed == {3 * c.cart[n][2] + c.cart[n][1] + 1 : n \in 1..c.ncart}
        Before(r) == Cardinality({s \in 1..(r - 1) : s \notin fixed})
    IN [r \in 1..c.nx |-> [n \in 1..(c.nx - c.ncart) |->
          IF r \notin fixed /\ Before(r) = n - 1 THEN 1 ELSE 0]]

\* CartToInternal.__init__ and Constraints.__init__: the buffers and flags
\* of a freshly constructed object of configuration c.
InitEngine(c) ==
    [calc_required |-> TRUE,
     grad |-> FALSE,
     curv |-> FALSE,
     nint |-> -1,
     next |-> -1,
     pos |-> ZeroRow(c.natoms),
     q1 |-> [n \in 1..c.nq |-> 0],
     dq |-> [n \in 1..c.nq |-> ZeroRow(c.natoms)],
     d2q_bonds |-> ZeroBlocks(c, "bonds"),
     d2q_angles |-> ZeroBlocks(c, "angles"),
     d2q_dihedrals |-> ZeroBlocks(c, "dihedrals"),
     d2q_angle_sums |-> ZeroBlocks(c, "angle_sums"),
     d2q_angle_diffs |-> ZeroBlocks(c, "angle_diffs"),
     Uint |-> [tag |-> "zeros", of |-> <<>>],
     Uext |-> [tag |-> "zeros", of |-> <<>>],
     Binv |-> [tag |-> "zeros", of |-> <<>>],
     calc_res |-> FALSE,
     res |-> [n \in 1..c.nq |-> 0],
     Ured |-> IF c.kind = "cons" THEN Ured_cinit(c) ELSE <<>>]

\* A validation that counts the rows and looks at nothing else.
validate_rows(c, inp) == Len(inp.pos) + Len(inp.dummypos) = c.natoms

\* CartToInternal._validate_pos
_validate_pos(c, inp) ==
    LET n_in == Len(inp.pos) + (IF inp.dgiven THEN Len(inp.dummypos) ELSE 0)
    IN IF inp.dgiven /\ inp.dw # 3 THEN FALSE
       ELSE IF ~inp.dgiven /\ c.ndummies > 0 THEN FALSE
       ELSE IF n_in # c.natoms \/ inp.pw # 3 THEN FALSE
       ELSE TRUE

\* A comparison that reports a change whatever it is given.
geom_always(e, c, inp) == "changed"

\* CartToInternal.geom_changed: the two comparison loops, in order.  The
\* result is "changed" at the first component that differs, "oob" when a
\* row is read that the argument does not have (bounds checking is on, the
\* read raises inside a function that declares no error return), and
\* "same" when both loops run to their end.
geom_changed(e, c, inp) ==
    LET realStop == {i \in 1..c.nreal : i > Len(inp.pos) \/ e.pos[i] # inp.pos[i]}
        dumStop == {i \in 1..c.ndummies :
                       i > Len(inp.dummypos) \/ e.pos[c.nreal + i] # inp.dummypos[i]}
        firstOf(S) == CHOOSE i \in S : \A j \in S : i <= j
    IN IF realStop # {}
       THEN IF firstOf(realStop) > Len(inp.pos) THEN "oob" ELSE "changed"
       ELSE IF dumStop # {}
       THEN IF firstOf(dumStop) > Len(inp.dummypos) THEN "oob" ELSE "changed"
       ELSE "same"

\* Assignment of src to a slice of n rows: the rows are copied when src has
\* n rows, one row is broadcast when src has a single row, and any other
\* extent is an error (reported as <<>>).
SliceAssign(n, src) ==
    IF Len(src) = n THEN [ok |-> TRUE, rows |-> src]
    ELSE IF Len(src) = 1 THEN [ok |-> TRUE, rows |-> [i \in 1..n |-> src[1]]]
    ELSE [ok |-> FALSE, rows |-> <<>>]

\* Outcome of one call of an update: the engine afterwards, the status,
\* and whether the call went past the cache test.
Outcome(e, info, recomputed) == [e |-> e, info |-> info, recomputed |-> recomputed]

\* The blocks of family f after the evaluation loops, when the coordinates
\* 1 .. upto (1-based, over all families) were written.
BlocksUpTo(c, f, ev, upto) ==
    [t \in 1..FamCount(c, f) |->
        IF FamStart(c, f) + t <= upto THEN ev[FamStart(c, f) + t].d2q
        ELSE ZeroBlock(FamAtoms(f))]

\* A recompute that leaves the rank it found.
SameRank(nint) == nint

\* CartToInternal._update, "self.nint = -1": the rank sentinel a successful
\* recompute leaves, whatever rank nint was held before.
StaleRank(nint) == -1

\* CartToInternal._update from "self.calc_required = True" on: flags, the
\* zeroing of every buffer, the snapshot copy and the evaluation loops.
Recompute(e, c, inp, grad, curv) ==
    LET e1 == [e EXCEPT !.calc_required = TRUE, !.grad = (grad \/ curv), !.curv = curv]
        e2 == [e1 EXCEPT !.q1 = [n \in 1..c.nq |-> 0],
                         !.dq = [n \in 1..c.nq |-> ZeroRow(c.natoms)],
                         !.d2q_bonds = ZeroBlocks(c, "bonds"),
                         !.d2q_angles = ZeroBlocks(c, "angles"),
                         !.d2q_dihedrals = ZeroBlocks(c, "dihedrals"),
                         !.d2q_angle_sums = ZeroBlocks(c, "angle_sums"),
                         !.d2q_angle_diffs = ZeroBlocks(c, "angle_diffs")]
        cp1 == SliceAssign(c.nreal, inp.pos)
        cp2 == SliceAssign(c.ndummies, inp.dummypos)
        pos1 == [a \in 1..c.natoms |-> IF a <= c.nreal THEN cp1.rows[a] ELSE e.pos[a]]
        pos2 == IF inp.dgiven
                THEN [a \in 1..c.natoms |->
                        IF a <= c.nreal THEN pos1[a] ELSE cp2.rows[a - c.nreal]]
                ELSE pos1
        ne == NEval(c)
        \* the evaluation loops, given the results ev of all evaluations
        Loops(ev) ==
            LET bad == {n \in 1..ne : ev[n].info < 0}
                upto == IF bad = {} THEN ne ELSE CHOOSE n \in bad : \A m \in bad : n <= m
                e3 == [e2 EXCEPT !.pos = pos2,
                         !.q1 = [n \in 1..c.nq |-> IF n <= upto THEN ev[n].q ELSE 0],
                         !.dq = [n \in 1..c.nq |->
                                    IF n <= upto THEN ev[n].dq ELSE ZeroRow(c.natoms)],
                         !.d2q_bonds = BlocksUpTo(c, "bonds", ev, upto),
                         !.d2q_angles = BlocksUpTo(c, "angles", ev, upto),
                         !.d2q_dihedrals = BlocksUpTo(c, "dihedrals", ev, upto),
                         !.d2q_angle_sums = BlocksUpTo(c, "angle_sums", ev, upto),
                         !.d2q_angle_diffs = BlocksUpTo(c, "angle_diffs", ev, upto)]
            IN IF bad # {}
               THEN Outcome(e3, ev[upto].info, TRUE)
               ELSE Outcome([e3 EXCEPT !.calc_required = FALSE, !.nint = StaleRank(@)], 0, TRUE)
    IN IF c.nq = 0
       THEN \* &self.q1[0] of an empty buffer: the bounds check raises
            Outcome(e1, -1, TRUE)
       ELSE IF ~cp1.ok
       THEN Outcome(e2, -1, TRUE)
       ELSE IF inp.dgiven /\ ~cp2.ok
       THEN Outcome([e2 EXCEPT !.pos = pos1], -1, TRUE)
       ELSE Loops([n \in 1..ne |-> EvalCoord(c, pos2, n, grad, curv)])

\* CartToInternal._update.  oobp tells whether the build lets the error
\* raised inside geom_changed reach the caller (TRUE) or prints it and goes
\* on with the result 0 (FALSE).
CartToInternal_update(e, c, inp, grad, curv, force, oobp) ==
    IF ~_validate_pos(c, inp) THEN Outcome(e, -1, FALSE)
    ELSE IF ~e.calc_required /\ ~force
            /\ (e.grad \/ ~grad) /\ (e.curv \/ ~curv)
            /\ geom_changed(e, c, inp) # "changed"
    THEN IF geom_changed(e, c, inp) = "oob" /\ oobp
         THEN Outcome(e, -1, FALSE)
         ELSE Outcome(e, 0, FALSE)
    ELSE Recompute(e, c, inp, grad, curv)

\* -------------------------------------------------------- constraint layer

\* A (natoms x 3) row as one flat row of 3 * natoms numbers.
Flat(row) == [t \in 1..(3 * Len(row)) |-> row[((t - 1) \div 3) + 1][((t - 1) % 3) + 1]]

\* The inverse of Flat.
Unflat(flat) == [a \in 1..(Len(flat) \div 3) |-> [x \in 1..3 |-> flat[3 * (a - 1) + x]]]

\* Concatenation of the flat forms of a sequence of rows.
RECURSIVE FlatAll(_)
FlatAll(rows) == IF rows = <<>> THEN <<>> ELSE Flat(Head(rows)) \o FlatAll(Tail(rows))

\* utilities.math.mgs on the rotation vectors rv against the translation
\* vectors of the axes in dirs: every rotation vector loses its component
\* along each translation vector (entries are kept whole by the factor
\* natoms); the count returned is the number of independent vectors left.
mgs(rv, dirs, natoms) ==
    LET proj == [r \in 1..Len(rv) |-> [a \in 1..natoms |-> [x \in 1..3 |->
                    IF dirs[x]
                    THEN natoms * rv[r][a][x] - SeqSum([b \in 1..natoms |-> rv[r][b][x]])
                    ELSE natoms * rv[r][a][x]]]]
    IN [vecs |-> proj,
        count |-> Rank([r \in 1..Len(rv) |-> Flat(proj[r])], 3 * natoms)]

\* Constraints.project_rotation: rvecs[i] = rot_axes[i] x pos[j] for every
\* atom j, orthonormalised against tvecs; fails when fewer than nrot
\* vectors are left.
project_rotation(e, c) ==
    LET raw == [i \in 1..c.nrot |-> [j \in 1..c.natoms |-> cross(c.rot_axes[i], e.pos[j])]]
        m == mgs(raw, c.trans_dirs, c.natoms)
    IN [rvecs |-> m.vecs, err |-> IF m.count < c.nrot THEN -1 ELSE 0]

\* BLAS dcopy(n, x, 1, y, incy) into the flat buffer y: y[k * incy] = x[k]
\* for k = 0 .. n-1 in turn; what would land behind the buffer is not kept.
dcopy(x, y, incy) ==
    [t \in 1..Len(y) |->
        IF incy = 0
        THEN IF t = 1 /\ Len(x) > 0 THEN x[Len(x)] ELSE y[t]
        ELSE IF (t - 1) % incy = 0 /\ ((t - 1) \div incy) + 1 <= Len(x)
             THEN x[((t - 1) \div incy) + 1]
             ELSE y[t]]

\* The values the stride sddq can hold when Constraints._update reads it
\* without having assigned it (it is assigned only under proj_trans).
UninitStrides(c) == IF c.proj_rot /\ ~c.proj_trans THEN {0, 1, 2} ELSE {1}

\* Constraints._update.  sddq0 is the content of the local sddq before any
\* assignment.
Constraints_update(e, c, inp, grad, curv, force, oobp, sddq0) ==
    LET e1 == [e EXCEPT !.calc_res = FALSE]
        e2 == [e1 EXCEPT !.res = [n \in 1..c.nq |-> 0]]
        sddq == IF c.proj_trans THEN 1 ELSE sddq0
        first == c.ninternal + c.ntrans
        \* the rotation rows, given the engine et with its translation rows
        \* and the result rot of project_rotation
        Rotation(et, rot) ==
            LET region == dcopy(FlatAll(rot.rvecs),
                                FlatAll([r \in 1..c.nrot |-> et.dq[first + r]]), sddq)
            IN IF rot.err # 0 THEN Outcome(et, rot.err, TRUE)
               ELSE Outcome([et EXCEPT !.dq = [n \in 1..c.nq |->
                               IF n > first
                               THEN Unflat([t \in 1..c.nx |-> region[(n - first - 1) * c.nx + t]])
                               ELSE et.dq[n]]],
                            0, TRUE)
        \* the translation rows, given the engine eb the base update left
        Translation(eb) ==
            IF c.proj_trans
            THEN [eb EXCEPT !.dq = [n \in 1..c.nq |->
                     IF n > c.ninternal /\ n <= c.ninternal + c.ntrans
                     THEN c.tvecs[n - c.ninternal] ELSE eb.dq[n]]]
            ELSE eb
        Projected(et) ==
            IF ~c.proj_rot THEN Outcome(et, 0, TRUE)
            ELSE Rotation(et, project_rotation(et, c))
        \* what follows the base update, given its outcome
        After(base) ==
            IF base.info # 0
            THEN Outcome([base.e EXCEPT !.calc_required = TRUE], base.info, TRUE)
            ELSE IF ~base.e.grad THEN Outcome(base.e, 0, TRUE)
            ELSE Projected(Translation(base.e))
    IN IF ~_validate_pos(c, inp) THEN Outcome(e, -1, FALSE)
       ELSE IF ~e.calc_required /\ ~force
               /\ (e.grad \/ ~grad) /\ (e.curv \/ ~curv)
               /\ geom_changed(e, c, inp) # "changed"
       THEN IF geom_changed(e, c, inp) = "oob" /\ oobp
            THEN Outcome(e, -1, FALSE)
            ELSE Outcome(e, 0, FALSE)
       ELSE IF c.nq = 0 THEN Outcome(e1, 0, TRUE)
       ELSE After(CartToInternal_update(e2, c, inp, grad, curv, TRUE, oobp))

\* The _update an object of configuration c runs (the method is virtual).
_update(e, c, inp, grad, curv, force, oobp, sddq0) ==
    IF c.kind = "cons"
    THEN Constraints_update(e, c, inp, grad, curv, force, oobp, sddq0)
    ELSE CartToInternal_update(e, c, inp, grad, curv, force, oobp)

\* ------------------------------------------------------------- subspace

\* utilities.math.mppi on the nq x nx matrix J: the number of significant
\* singular values (the rank of J), or a negative status when the
\* decomposition breaks down (ok = FALSE).
mppi(J, nx, ok) == IF ok THEN Rank(J, nx) ELSE -1

\* The nmax x nmax buffer with ones on the first nx diagonal places.
EyeBuffer(nmax, nx) ==
    [i \in 1..nmax |-> [j \in 1..nmax |-> IF i = j /\ i <= nx THEN 1 ELSE 0]]

ZeroBuffer(nmax) == [i \in 1..nmax |-> [j \in 1..nmax |-> 0]]

\* Outcome of one call of _U_update: the engine afterwards, the status upd
\* of its update, its own status, whether the update went past the cache
\* test and whether the decomposition was rebuilt.
UOutcome(e, upd, info, recomputed, decomposed) ==
    [e |-> e, upd |-> upd, info |-> info, recomputed |-> recomputed,
     decomposed |-> decomposed]

\* A complement that is the whole space whatever the rank.
next_full(nx, nint) == nx

\* CartToInternal._U_update, "self.next = self.nx - self.nint".
next_dim(nx, nint) == nx - nint

\* CartToInternal._U_update (force is never passed by the accessors).
_U_update(e, c, inp, oobp, sddq0, svdok) ==
    LET \* the decomposition of the Jacobian J, given its result
        Decomposed(u, J, rank) ==
            IF rank < 0
            THEN UOutcome([u.e EXCEPT !.Uint = [tag |-> "broken", of |-> J],
                                      !.Uext = [tag |-> "broken", of |-> J],
                                      !.Binv = [tag |-> "broken", of |-> J],
                                      !.nint = rank],
                          0, rank, u.recomputed, TRUE)
            ELSE UOutcome([u.e EXCEPT !.Uint = [tag |-> "mppi", of |-> J],
                                      !.Uext = [tag |-> "mppi", of |-> J],
                                      !.Binv = [tag |-> "mppi", of |-> J],
                                      !.nint = rank,
                                      !.next = next_dim(c.nx, rank),
                                      !.calc_required = FALSE],
                          0, 0, u.recomputed, TRUE)
        Decompose(u, J) == Decomposed(u, J, mppi(J, c.nx, svdok))
        \* what follows the update, given its outcome u
        After(u) ==
            IF u.info # 0 THEN UOutcome(u.e, u.info, u.info, u.recomputed, FALSE)
            ELSE IF u.e.nint > 0 THEN UOutcome(u.e, 0, 0, u.recomputed, FALSE)
            ELSE IF c.nq = 0
            THEN UOutcome([u.e EXCEPT !.Uint = [tag |-> "explicit", of |-> ZeroBuffer(c.nmax)],
                                      !.Uext = [tag |-> "explicit", of |-> EyeBuffer(c.nmax, c.nx)],
                                      !.nint = 0,
                                      !.next = c.nx],
                          0, 0, u.recomputed, TRUE)
            ELSE Decompose(u, [n \in 1..c.nq |-> Flat(u.e.dq[n])])
    IN After(_update(e, c, inp, TRUE, FALSE, FALSE, oobp, sddq0))

\* The slice buf[:rows, :cols] of a subspace buffer, copied.
USlice(buf, rows, cols) ==
    [rows |-> rows, cols |-> cols, tag |-> buf.tag,
     of |-> IF buf.tag = "explicit"
            THEN [i \in 1..rows |-> [j \in 1..cols |-> buf.of[i][j]]]
            ELSE buf.of]

NoRet == [rows |-> 0, cols |-> 0, tag |-> "none", of |-> <<>>]

\* ------------------------------------------------------ returned objects

\* The cached buffer an object of kind k would alias.
Buffer(e, k) ==
    CASE k = "q" -> e.q1
      [] k = "B" -> [n \in 1..Len(e.dq) |-> Flat(e.dq[n])]
      [] k = "res" -> e.res
      [] k = "Ured" -> e.Ured
      [] k = "D" -> [Dbonds |-> e.d2q_bonds, Dangles |-> e.d2q_angles,
                     Ddihedrals |-> e.d2q_dihedrals, Dangle_sums |-> e.d2q_angle_sums,
                     Dangle_diffs |-> e.d2q_angle_diffs]
      [] OTHER -> <<>>

\* The engine with the buffer of kind k (an array) overwritten by data.
SetBuffer(e, k, data) ==
    CASE k = "q" -> [e EXCEPT !.q1 = data]
      [] k = "B" -> [e EXCEPT !.dq = [n \in 1..Len(data) |-> Unflat(data[n])]]
      [] k = "res" -> [e EXCEPT !.res = data]
      [] k = "Ured" -> [e EXCEPT !.Ured = data]
      [] OTHER -> e

\* An array object handed out on the buffer's own memory.
np_alias(e, k) == [kind |-> k, alias |-> TRUE, data |-> <<>>]

\* np.array(buffer): a new array with the buffer's content.
np_array(e, k) == [kind |-> k, alias |-> FALSE, data |-> Buffer(e, k)]

\* np.asarray(buffer): an array object on the buffer's own memory.
np_asarray(e, k) == [kind |-> k, alias |-> TRUE, data |-> <<>>]

\* D2q.__cinit__: new block arrays, filled from the engine's blocks.
D2q_cinit(e) == [kind |-> "D", alias |-> FALSE, data |-> Buffer(e, "D")]

\* What the holder of object h reads in it.
View(h, e) == IF h.alias THEN Buffer(e, h.kind) ELSE h.data

NoObject == [kind |-> "none", alias |-> FALSE, data |-> <<>>, expect |-> <<>>, mutated |-> FALSE]

\* The object obj as held by the caller, who expects to keep reading what
\* it holds now.
Hold(obj, e) == obj @@ [expect |-> View(obj, e), mutated |-> FALSE]

\* ------------------------------------------------------------------ inputs

\* A regular lattice geometry per number of atoms: no two atoms on one
\* point, no three on one line.
Regular(natoms) ==
    CASE natoms = 1 -> <<Vec(0, 1, 0)>>
      [] natoms = 2 -> <<Vec(0, 0, 0), Vec(1, 0, 0)>>
      [] natoms = 3 -> <<Vec(1, 0, 0), Vec(0, 1, 0), Vec(0, 0, 0)>>
      [] natoms = 4 -> <<Vec(0, 0, 0), Vec(1, 0, 0), Vec(1, 1, 0), Vec(2, 1, 0)>>

\* Further geometries: two atoms on one point; for three atoms also the
\* atoms on one line; for four atoms also a chain turned by a right angle.
Presets(natoms) ==
    CASE natoms = 1 -> {}
      [] natoms = 2 -> {<<Vec(0, 1, 0), Vec(0, 1, 0)>>}
      [] natoms = 3 -> {<<Vec(1, 0, 0), Vec(-1, 0, 0), Vec(0, 0, 0)>>,
                        <<Vec(0, 0, 0), Vec(0, 0, 0), Vec(0, 1, 0)>>}
      [] natoms = 4 -> {<<Vec(0, 0, 0), Vec(1, 0, 0), Vec(1, 1, 0), Vec(1, 1, 1)>>,
                        <<Vec(1, 0, 0), Vec(1, 0, 0), Vec(1, 1, 0), Vec(2, 1, 0)>>}

\* The geometries a call can pass: the regular one, moved along z by up to
\* MaxShift lattice steps, and the presets.
Geoms(natoms) ==
    {[a \in 1..natoms |-> VAdd(Regular(natoms)[a], Vec(0, 0, sh))] : sh \in 0..MaxShift}
    \cup Presets(natoms)

\* The arguments of one call: the rows of G up to row r as positions (of
\* width pw), and, when a dummy array is passed at all, the rows after row
\* s as dummy positions (of width dw).
MkInput(G, r, s, dgiven, pw, dw) ==
    [pos |-> SubSeq(G, 1, r), pw |-> pw, dgiven |-> dgiven,
     dummypos |-> IF dgiven THEN SubSeq(G, s + 1, Len(G)) ELSE <<>>, dw |-> dw]

\* The calls made on an object of configuration c: every geometry split as
\* the constructor was told; and the regular geometry split one row off,
\* with a row missing, in arrays of width 2, and without its dummy array.
Inputs(c) ==
    LET R == Regular(c.natoms)
        d == c.ndummies > 0
        off == {r \in {c.nreal - 1} \cup (IF d THEN {c.nreal + 1} ELSE {}) : r >= 0}
    IN {MkInput(G, c.nreal, c.nreal, d, 3, 3) : G \in Geoms(c.natoms)}
       \cup {MkInput(R, r, r, TRUE, 3, 3) : r \in off}
       \cup {MkInput(R, c.nreal - 1, c.nreal, d, 3, 3),
             MkInput(R, c.nreal, c.nreal, d, 2, 3)}
       \cup (IF d THEN {MkInput(R, c.nreal, c.nreal, TRUE, 3, 2),
                        MkInput(R, c.natoms, c.natoms, FALSE, 3, 3)}
             ELSE {})

\* The positions a call asks for, atom by atom: the rows of pos followed by
\* the rows of dummypos.
Requested(inp) == inp.pos \o inp.dummypos

\* ---------------------------------------------------------------- accessors

\* The record of one call: its number, the accessor, its arguments, the
\* derivative level it asked its update for, the status upd of that update
\* and the status info of the accessor, whether the update went past the
\* cache test, whether the decomposition and the residual were rebuilt,
\* and (for a subspace accessor) what was returned.
CallRec(op, inp, grad, curv, upd, o, decomposed, rescomputed, ret) ==
    [n |-> call.n + 1, op |-> op, inp |-> inp, grad |-> grad, curv |-> curv,
     upd |-> upd, info |-> o.info,
     recomputed |-> o.recomputed, decomposed |-> decomposed,
     rescomputed |-> rescomputed, ret |-> ret]

\* The caller holds the object obj a successful call returned until its
\* next call; a call that raises returns nothing.
Keep(info, obj, e) == held' = IF info >= 0 THEN Hold(obj, e) ELSE NoObject

\* What the build can do with the error raised inside geom_changed, when
\* the comparison of inp against the snapshot raises one: pass it on (TRUE)
\* or drop it (FALSE).
OobOutcomes(e, c, inp) ==
    IF _validate_pos(c, inp) /\ geom_changed(e, c, inp) = "oob" THEN BOOLEAN ELSE {FALSE}

\* What an array accessor leaves behind: o is the outcome of its update,
\* obj the object it returns when the update succeeded.
Returned(op, inp, grad, curv, o, obj) ==
    /\ eng' = o.e
    /\ call' = CallRec(op, inp, grad, curv, o.info, o, FALSE, FALSE, NoRet)
    /\ Keep(o.info, obj, o.e)
    /\ UNCHANGED cfg

\* CartToInternal.get_q
get_q ==
    /\ cfg.built
    /\ call.n < MaxCalls
    /\ \E inp \in Inputs(cfg), sddq0 \in UninitStrides(cfg) :
         \E oobp \in OobOutcomes(eng, cfg, inp) :
           LET Array(o) == Returned("get_q", inp, FALSE, FALSE, o, np_array(o.e, "q"))
           IN Array(_update(eng, cfg, inp, FALSE, FALSE, FALSE, oobp, sddq0))

\* CartToInternal.get_B
get_B ==
    /\ cfg.built
    /\ call.n < MaxCalls
    /\ \E inp \in Inputs(cfg), sddq0 \in UninitStrides(cfg) :
         \E oobp \in OobOutcomes(eng, cfg, inp) :
           LET Array(o) == Returned("get_B", inp, TRUE, FALSE, o, np_array(o.e, "B"))
           IN Array(_update(eng, cfg, inp, TRUE, FALSE, FALSE, oobp, sddq0))

\* CartToInternal.get_D
get_D ==
    /\ cfg.built
    /\ call.n < MaxCalls
    /\ \E inp \in Inputs(cfg), sddq0 \in UninitStrides(cfg) :
         \E oobp \in OobOutcomes(eng, cfg, inp) :
           LET Handle(o) == Returned("get_D", inp, TRUE, TRUE, o, D2q_cinit(o.e))
           IN Handle(_update(eng, cfg, inp, TRUE, TRUE, FALSE, oobp, sddq0))

\* What a subspace accessor leaves behind: o is the outcome of _U_update,
\* ret the slice it returns when that succeeded.
Refreshed(op, inp, o, ret) ==
    /\ eng' = o.e
    /\ call' = CallRec(op, inp, TRUE, FALSE, o.upd, o, o.decomposed, FALSE,
                       IF o.info < 0 THEN NoRet ELSE ret)
    /\ held' = NoObject
    /\ UNCHANGED cfg

RetUint(e) == USlice(e.Uint, cfg.nx, e.nint)

RetUext(e) == USlice(e.Uext, cfg.nx, e.next)

RetBinv(e) == [rows |-> cfg.nx, cols |-> cfg.nq, tag |-> e.Binv.tag, of |-> e.Binv.of]

\* CartToInternal.get_Uint
get_Uint ==
    /\ cfg.built
    /\ call.n < MaxCalls
    /\ \E inp \in Inputs(cfg), sddq0 \in UninitStrides(cfg), svdok \in BOOLEAN :
         \E oobp \in OobOutcomes(eng, cfg, inp) :
           LET Slice(o) == (svdok \/ o.decomposed) /\ Refreshed("get_Uint", inp, o, RetUint(o.e))
           IN Slice(_U_update(eng, cfg, inp, oobp, sddq0, svdok))

\* CartToInternal.get_Uext
get_Uext ==
    /\ cfg.built
    /\ call.n < MaxCalls
    /\ \E inp \in Inputs(cfg), sddq0 \in UninitStrides(cfg), svdok \in BOOLEAN :
         \E oobp \in OobOutcomes(eng, cfg, inp) :
           LET Slice(o) == (svdok \/ o.decomposed) /\ Refreshed("get_Uext", inp, o, RetUext(o.e))
           IN Slice(_U_update(eng, cfg, inp, oobp, sddq0, svdok))

\* CartToInternal.get_Binv
get_Binv ==
    /\ cfg.built
    /\ call.n < MaxCalls
    /\ \E inp \in Inputs(cfg), sddq0 \in UninitStrides(cfg), svdok \in BOOLEAN :
         \E oobp \in OobOutcomes(eng, cfg, inp) :
           LET Slice(o) == (svdok \/ o.decomposed) /\ Refreshed("get_Binv", inp, o, RetBinv(o.e))
           IN Slice(_U_update(eng, cfg, inp, oobp, sddq0, svdok))

\* C fmod(a, b) for b > 0: the remainder has the sign of a.
fmod(a, b) == IF a >= 0 THEN a % b ELSE -((-a) % b)

\* Constraints.get_res, the two statements that wrap a dihedral residual r:
\* x = (pi + r) % (2 * pi), then x - copysign(pi, x).  The remainder x
\* carries the sign of pi + r, also when it is zero.
WrapResidual(r) ==
    LET a == PI + r
        x == fmod(a, 2 * PI)
    IN x - (IF a < 0 THEN -PI ELSE PI)

\* Constraints.get_res from "for i in range(self.ninternal)" on.
ComputeRes(e, c) ==
    LET raw == [i \in 1..c.nq |-> IF i <= c.ninternal THEN e.q1[i] - c.target[i] ELSE e.res[i]]
        n == c.ncart + c.nbonds + c.nangles
    IN [e EXCEPT !.res = [i \in 1..c.nq |->
                            IF i > n /\ i <= n + c.ndihedrals THEN WrapResidual(raw[i])
                            ELSE raw[i]],
                 !.calc_res = TRUE]

\* Constraints.get_res
get_res ==
    /\ cfg.kind = "cons"
    /\ cfg.built
    /\ call.n < MaxCalls
    /\ \E inp \in Inputs(cfg), sddq0 \in UninitStrides(cfg) :
        \E oobp \in OobOutcomes(eng, cfg, inp) :
          LET Returns(o, compute, e1) ==
                  /\ eng' = e1
                  /\ call' = CallRec("get_res", inp, FALSE, FALSE, o.info, o, FALSE, compute, NoRet)
                  /\ Keep(o.info, np_asarray(e1, "res"), e1)
                  /\ UNCHANGED cfg
              Residual(o) ==
                  IF o.info >= 0 /\ ~o.e.calc_res
                  THEN Returns(o, TRUE, ComputeRes(o.e, cfg))
                  ELSE Returns(o, FALSE, o.e)
          IN Residual(_update(eng, cfg, inp, FALSE, FALSE, FALSE, oobp, sddq0))

\* Constraints.get_Ured: no update, no arguments; an array on the
\* reduction matrix.
get_Ured ==
    /\ cfg.kind = "cons"
    /\ cfg.built
    /\ call.n < MaxCalls
    /\ eng' = eng
    /\ call' = CallRec("get_Ured", call.inp, FALSE, FALSE, 0, Outcome(eng, 0, FALSE), FALSE, FALSE, NoRet)
    /\ Keep(0, np_asarray(eng, "Ured"), eng)
    /\ UNCHANGED cfg

\* The caller writes into an array it holds: its first entry becomes one
\* more than it was.  The write lands in the object's own memory, or in the
\* engine's buffer when the object is an array on that buffer.
Poison(k, data) ==
    IF k \in {"B", "Ured"} THEN [data EXCEPT ![1][1] = @ + 1] ELSE [data EXCEPT ![1] = @ + 1]

MutateHeld ==
    /\ held.kind \in {"q", "B", "res", "Ured"}
    /\ ~held.mutated
    /\ Len(View(held, eng)) > 0
    /\ LET new == Poison(held.kind, View(held, eng))
       IN /\ eng' = IF held.alias THEN SetBuffer(eng, held.kind, new) ELSE eng
          /\ held' = [held EXCEPT !.data = IF held.alias THEN @ ELSE new,
                                  !.expect = new,
                                  !.mutated = TRUE]
    /\ call' = [call EXCEPT !.op = "mutate"]
    /\ UNCHANGED cfg

\* ----------------------------------------------------------- specification

\* Constructor arguments: kind of object, atoms, index lists (0-based atom
\* numbers; a cart entry is <<axis, atom>>), and for the constraint layer
\* the targets, the projection flags and the periodicity.
Args(kind, nreal, ndummies, cart, bonds, angles, dihedrals, sums, diffs, target, proj_trans, proj_rot, pbc) ==
    [kind |-> kind, nreal |-> nreal, ndummies |-> ndummies, cart |-> cart,
     bonds |-> bonds, angles |-> angles, dihedrals |-> dihedrals,
     angle_sums |-> sums, angle_diffs |-> diffs, target |-> target,
     proj_trans |-> proj_trans, proj_rot |-> proj_rot, pbc |-> pbc]

NoPbc == <<FALSE, FALSE, FALSE>>

\* The objects constructed: base engines and constraint layers over one to
\* four atoms, with every family, with no coordinate at all, with dummy
\* atoms, with pinned atoms, with and without the projections.
CtorArgs ==
    {Args("base", 2, 0, <<<<0, 0>>, <<1, 1>>>>, <<>>, <<>>, <<>>, <<>>, <<>>,
          <<>>, FALSE, FALSE, NoPbc),
     Args("base", 2, 1, <<>>, <<<<0, 1>>>>, <<<<0, 2, 1>>>>, <<>>, <<>>, <<>>,
          <<>>, FALSE, FALSE, NoPbc),
     Args("base", 4, 0, <<>>, <<<<1, 2>>>>, <<>>, <<<<0, 1, 2, 3>>>>, <<>>, <<>>,
          <<>>, FALSE, FALSE, NoPbc),
     Args("base", 4, 0, <<>>, <<>>, <<>>, <<>>, <<<<0, 1, 2, 3>>>>, <<<<0, 1, 2, 3>>>>,
          <<>>, FALSE, FALSE, NoPbc),
     Args("base", 1, 0, <<>>, <<>>, <<>>, <<>>, <<>>, <<>>,
          <<>>, FALSE, FALSE, NoPbc),
     Args("cons", 1, 0, <<>>, <<>>, <<>>, <<>>, <<>>, <<>>,
          <<>>, FALSE, FALSE, NoPbc),
     Args("cons", 3, 0, <<>>, <<<<0, 1>>>>, <<>>, <<>>, <<>>, <<>>,
          <<12>>, TRUE, TRUE, NoPbc),
     Args("cons", 3, 0, <<>>, <<>>, <<<<0, 2, 1>>>>, <<>>, <<>>, <<>>,
          <<PI \div 2>>, FALSE, TRUE, NoPbc),
     Args("cons", 4, 0, <<>>, <<>>, <<>>, <<<<0, 1, 2, 3>>>>, <<>>, <<>>,
          <<-(PI \div 2)>>, TRUE, FALSE, NoPbc)}

Init ==
    /\ \E a \in CtorArgs : \E byrow \in IndexOutcomes(a) : cfg = Construct(a, byrow)
    /\ eng = InitEngine(cfg)
    /\ call = [n |-> 0, op |-> "init", inp |-> MkInput(<<>>, 0, 0, FALSE, 3, 3), grad |-> FALSE,
               curv |-> FALSE, upd |-> 0, info |-> 0, recomputed |-> FALSE, decomposed |-> FALSE,
               rescomputed |-> FALSE, ret |-> NoRet]
    /\ held = NoObject

Next ==
    \/ get_q
    \/ get_B
    \/ get_D
    \/ get_Uint
    \/ get_Uext
    \/ get_Binv
    \/ get_res
    \/ MutateHeld

Spec == Init /\ [][Next]_vars

\* ------------------------------------------------------------------ claims

Accessors == {"get_q", "get_B", "get_D", "get_Uint", "get_Uext", "get_Binv", "get_res"}

\* The arguments inp are, array by array, what the snapshot of engine e
\* holds: the positions its first nreal rows, the dummy positions the rest.
SameAsSnapshot(e, c, inp) ==
    /\ inp.pw = 3
    /\ inp.pos = SubSeq(e.pos, 1, c.nreal)
    /\ IF c.ndummies > 0
       THEN inp.dgiven /\ inp.dw = 3 /\ inp.dummypos = SubSeq(e.pos, c.nreal + 1, c.natoms)
       ELSE inp.dummypos = <<>>

\* The derivative level (grad, curv) is covered by the flags of engine e.
LevelSatisfied(e, grad, curv) == (e.grad \/ ~grad) /\ (e.curv \/ ~curv)

\* A step in which the update of the accessor called returns success at the
\* cache test and every cached buffer and flag stays as it was (the rank
\* sentinel and the residual flag as far as the accessor itself, after its
\* update, did not rebuild the decomposition or the residual).
ShortCircuit ==
    /\ call'.upd = 0
    /\ ~call'.recomputed
    /\ eng'.pos = eng.pos /\ eng'.q1 = eng.q1 /\ eng'.dq = eng.dq
    /\ eng'.d2q_bonds = eng.d2q_bonds /\ eng'.d2q_angles = eng.d2q_angles
    /\ eng'.d2q_dihedrals = eng.d2q_dihedrals
    /\ eng'.d2q_angle_sums = eng.d2q_angle_sums
    /\ eng'.d2q_angle_diffs = eng.d2q_angle_diffs
    /\ eng'.grad = eng.grad /\ eng'.curv = eng.curv
    /\ (~call'.decomposed => eng'.nint = eng.nint /\ eng'.calc_required = eng.calc_required)
    /\ (~call'.rescomputed => eng'.calc_res = eng.calc_res /\ eng'.res = eng.res)

\* C1 as stated: every accessor call whose positions equal the snapshot and
\* whose level is covered by the cached flags short-circuits: its update
\* returns success, recomputes nothing and changes no cached buffer or flag.
C1_Stated ==
    [][(/\ call'.op \in Accessors
        /\ SameAsSnapshot(eng, cfg, call'.inp)
        /\ LevelSatisfied(eng, call'.grad, call'.curv))
       => ShortCircuit]_vars

\* C1, amended: every accessor call made while the cache is marked valid
\* (calc_required is false), whose positions equal the snapshot and whose
\* level is covered by the cached flags, short-circuits: its update returns
\* success, recomputes nothing and changes no cached buffer or flag.
C1_ShortCircuit ==
    [][(/\ call'.op \in Accessors
        /\ ~eng.calc_required
        /\ SameAsSnapshot(eng, cfg, call'.inp)
        /\ LevelSatisfied(eng, call'.grad, call'.curv))
       => ShortCircuit]_vars

\* C1, witness: a second call at the positions of the snapshot, whose
\* update returned success at the cache test of a valid cache.
C1_Witness ==
    /\ call.op \in Accessors
    /\ call.n >= 2
    /\ call.upd = 0
    /\ ~call.recomputed
    /\ ~eng.calc_required
    /\ SameAsSnapshot(eng, cfg, call.inp)
    /\ eng.q1 # [n \in 1..cfg.nq |-> 0]

\* The second-derivative blocks of family f held by engine e.
Blocks(e, f) ==
    CASE f = "bonds" -> e.d2q_bonds
      [] f = "angles" -> e.d2q_angles
      [] f = "dihedrals" -> e.d2q_dihedrals
      [] f = "angle_sums" -> e.d2q_angle_sums
      [] f = "angle_diffs" -> e.d2q_angle_diffs

\* The buffers of engine e are what one pass of the evaluation loops over
\* zeroed buffers leaves at the snapshot of e: the values, the Jacobian rows
\* when the grad flag is set, the blocks when the curv flag is set.
Coherent(e, c) ==
    LET ne == NEval(c)
        Agree(ev) ==
            /\ \A n \in 1..ne : e.q1[n] = ev[n].q
            /\ e.grad => \A n \in 1..ne : e.dq[n] = ev[n].dq
            /\ e.curv => \A t \in 2..6 :
                            Blocks(e, Families[t]) = BlocksUpTo(c, Families[t], ev, ne)
    IN Agree([n \in 1..ne |-> EvalCoord(c, e.pos, n, e.grad, e.curv)])

\* C2, first part: whenever the cache is marked valid, the value buffer, the
\* Jacobian (grad flag set) and the second-derivative blocks (curv flag set)
\* are the result of one full recompute from the stored snapshot.
C2_Coherent == ~eng.calc_required => Coherent(eng, cfg)

\* C2, second part: an accessor call with accepted arrays whose positions
\* differ from the snapshot in some component, or whose level exceeds the
\* cached one, recomputes.
C2_Recomputes ==
    (/\ call'.op \in Accessors
     /\ _validate_pos(cfg, call'.inp)
     /\ \/ Requested(call'.inp) # eng.pos
        \/ ~LevelSatisfied(eng, call'.grad, call'.curv))
    => call'.recomputed

\* C2, third part: after a successful recompute requested with (grad, curv)
\* the flags are (grad or curv, curv) and the snapshot is the requested
\* positions.
C2_Stores ==
    (call'.op \in Accessors /\ call'.recomputed /\ call'.upd = 0)
    => /\ eng'.grad = (call'.grad \/ call'.curv)
       /\ eng'.curv = call'.curv
       /\ eng'.pos = Requested(call'.inp)

\* C2 as stated: cache coherence.  A valid cache holds the result of one
\* full recompute from the stored snapshot; a recompute happens whenever the
\* positions differ from the snapshot or the level exceeds the cached one;
\* a successful recompute stores the flags (grad or curv, curv) and the
\* requested positions as the snapshot.
C2_Stated == []C2_Coherent /\ [][C2_Recomputes /\ C2_Stores]_vars

\* The arrays of a call have a shape the update must refuse: the rows of
\* both arrays do not add up to natoms, an array is not 3 wide, or no dummy
\* array is passed to an engine that has dummy atoms.
InvalidShape(c, inp) ==
    \/ Len(inp.pos) + Len(inp.dummypos) # c.natoms
    \/ inp.pw # 3
    \/ inp.dgiven /\ inp.dw # 3
    \/ ~inp.dgiven /\ c.ndummies > 0

\* C3: an accessor call whose arrays have an invalid shape fails (negative
\* status of the update and of the accessor) and modifies no cached buffer
\* or flag.
C3_ShapeRefused ==
    [][(call'.op \in Accessors /\ InvalidShape(cfg, call'.inp))
       => (call'.upd < 0 /\ call'.info < 0 /\ eng' = eng)]_vars

\* C3, witness: a call with arrays of invalid shape made on a valid cache,
\* refused, the cache as valid as before.
C3_Witness ==
    /\ call.op \in Accessors
    /\ call.n >= 2
    /\ InvalidShape(cfg, call.inp)
    /\ call.upd < 0
    /\ ~eng.calc_required
    /\ eng.q1 # [n \in 1..cfg.nq |-> 0]

\* The evaluation of coordinate number n at pos reports a degeneracy; for
\* an angle sum or difference, either of its two angle evaluations does.
Degenerate(c, pos, n, grad, curv) ==
    LET f == FamOf(c, n)
        ix == FamList(c, f)[n - FamStart(c, f)]
        dx2 == VSub(pos[ix[4] + 1], pos[ix[2] + 1])
    IN IF f \in {"angle_sums", "angle_diffs"}
       THEN \/ cart_to_angle(c.natoms, ix[1], ix[2], ix[4],
                    VSub(pos[ix[2] + 1], pos[ix[1] + 1]), dx2, grad, curv).info < 0
            \/ cart_to_angle(c.natoms, ix[3], ix[2], ix[4],
                    VSub(pos[ix[2] + 1], pos[ix[3] + 1]), dx2, grad, curv).info < 0
       ELSE EvalCoord(c, pos, n, grad, curv).info < 0

\* C4 as stated: an update that ran the evaluation loops at a snapshot where
\* the evaluation of some configured coordinate (for an angle sum or
\* difference, of either constituent angle) reports a degeneracy returns a
\* negative status.
C4_Stated ==
    [][(/\ call'.op \in Accessors
        /\ call'.recomputed
        /\ Requested(call'.inp) = eng'.pos
        /\ \E n \in 1..NEval(cfg) :
               Degenerate(cfg, eng'.pos, n, call'.grad, call'.curv))
       => call'.upd < 0]_vars

\* C4, the families evaluated by one call: a degenerate bond, angle or
\* dihedral, and a degenerate second angle of a sum or difference, give a
\* negative status.
C4_SingleEvaluation ==
    [][(/\ call'.op \in Accessors
        /\ call'.recomputed
        /\ Requested(call'.inp) = eng'.pos
        /\ \E n \in 1..NEval(cfg) :
               EvalCoord(cfg, eng'.pos, n, call'.grad, call'.curv).info < 0)
       => call'.upd < 0]_vars

\* C5: the objects get_q, get_B and get_D return are independent copies.
\* A write into a returned array changes nothing in the engine, and no later
\* accessor call or update changes what a returned array or
\* second-derivative handle holds (the handle's ldot, rdot and ddot are
\* functions of what it holds).
C5_Copies ==
    [][held.kind \in {"q", "B", "D"}
       => IF call'.op = "mutate"
          THEN eng' = eng
          ELSE View(held, eng') = held.expect]_vars

\* C5, witness: the caller has written into an array a call returned, and
\* the array now differs from the engine's buffer.
C5_Witness ==
    /\ call.op = "mutate"
    /\ held.kind \in {"q", "B"}
    /\ held.mutated
    /\ View(held, eng) = held.expect
    /\ View(held, eng) # Buffer(eng, held.kind)
    /\ ~eng.calc_required

Subspace == {"get_Uint", "get_Uext", "get_Binv"}

\* The Jacobian of engine e as the matrix handed to the decomposition.
Jacobian(e, c) == [n \in 1..c.nq |-> Flat(e.dq[n])]

\* The three subspace buffers of e are the decomposition of its Jacobian.
FromJacobian(e, c) ==
    /\ e.Uint = [tag |-> "mppi", of |-> Jacobian(e, c)]
    /\ e.Uext = [tag |-> "mppi", of |-> Jacobian(e, c)]
    /\ e.Binv = [tag |-> "mppi", of |-> Jacobian(e, c)]

\* C6, first part: a successful recompute made by an accessor that does not
\* touch the subspace leaves the rank sentinel stale.
C6_Resets ==
    (call'.op \in Accessors \ Subspace /\ call'.recomputed /\ call'.upd = 0)
    => eng'.nint = -1

C7_Dimensions ==
    (call.op \in Subspace /\ call.info = 0)
    => /\ eng.nint + eng.next = 3 * cfg.natoms
       /\ 0 <= eng.nint /\ eng.nint <= Min(cfg.nq, 3 * cfg.natoms)
       /\ call.op = "get_Uint"
            => (call.ret.rows = 3 * cfg.natoms /\ call.ret.cols = eng.nint)
       /\ call.op = "get_Uext"
            => (call.ret.rows = 3 * cfg.natoms /\ call.ret.cols = eng.next)

\* C7, witness: a decomposition that found both an internal and an external
\* subspace, and the Uext slice returned from it.
C7_Witness ==
    /\ call.op = "get_Uext"
    /\ call.info = 0
    /\ call.decomposed
    /\ eng.nint > 0 /\ eng.next > 0
    /\ call.ret.cols = eng.next

\* C8 as stated: on an engine with no coordinate (nq = 0), base engine or
\* constraint layer, a subspace accessor called with arrays of valid shape
\* succeeds, nint is 0, the Uint returned has no column and the Uext
\* returned is the 3 * natoms x 3 * natoms identity.
C8_Stated ==
    (cfg.nq = 0 /\ call.op \in Subspace /\ ~InvalidShape(cfg, call.inp))
    => /\ call.info = 0
       /\ eng.nint = 0
       /\ call.op = "get_Uint" => call.ret.cols = 0
       /\ call.op = "get_Uext"
            => call.ret = [rows |-> 3 * cfg.natoms, cols |-> 3 * cfg.natoms,
                           tag |-> "explicit",
                           of |-> EyeBuffer(3 * cfg.natoms, 3 * cfg.natoms)]

\* The dihedral entries of the residual (1-based coordinate numbers).
DihedralRows(c) ==
    {i \in 1..c.nq : i > c.ncart + c.nbonds + c.nangles
                     /\ i <= c.ncart + c.nbonds + c.nangles + c.ndihedrals}

\* C9 as stated: every dihedral entry of the residual get_res returns lies
\* in (-pi, pi]: strictly above -pi, at most pi.
C9_Stated ==
    (call.op = "get_res" /\ call.info = 0)
    => \A i \in DihedralRows(cfg) : -PI < eng.res[i] /\ eng.res[i] <= PI

\* C10 as stated: the residual get_res returns is current value minus
\* target on every real coordinate that is no dihedral, congruent to it
\* modulo 2 * pi on every dihedral, and zero on every synthetic row; it is
\* computed after every recompute of the coordinate state and not again by
\* a get_res call at the positions of the successful get_res call before it.
C10_Stated ==
    /\ []((call.op = "get_res" /\ call.info = 0)
          => /\ \A i \in 1..cfg.nq :
                  IF i > cfg.ninternal THEN View(held, eng)[i] = 0
                  ELSE IF i \in DihedralRows(cfg)
                  THEN (View(held, eng)[i] - (eng.q1[i] - cfg.target[i])) % (2 * PI) = 0
                  ELSE View(held, eng)[i] = eng.q1[i] - cfg.target[i]
             /\ call.recomputed => call.rescomputed)
    /\ [][(/\ call'.op = "get_res"
           /\ call.op = "get_res" /\ call.info = 0
           /\ call'.inp = call.inp)
          => ~call'.rescomputed]_vars

\* ------------------------------------------- construction of the layer

\* The constraint layers constructed over three atoms with one bond: every
\* periodicity, both projection flags, and no pinned coordinate, one, or one
\* on every axis.
PinnedLists == {<<>>, <<<<0, 0>>>>, <<<<0, 0>>, <<1, 1>>, <<2, 2>>>>}

CtorArgsCons ==
    {Args("cons", 3, 0, cart, <<<<0, 1>>>>, <<>>, <<>>, <<>>, <<>>, <<12>>, pt, pr, <<px, py, pz>>) :
        cart \in PinnedLists, pt \in BOOLEAN, pr \in BOOLEAN,
        px \in BOOLEAN, py \in BOOLEAN, pz \in BOOLEAN}

InitCons ==
    /\ \E a \in CtorArgsCons : \E byrow \in IndexOutcomes(a) : cfg = Construct(a, byrow)
    /\ eng = InitEngine(cfg)
    /\ call = [n |-> 0, op |-> "init", inp |-> MkInput(<<>>, 0, 0, FALSE, 3, 3), grad |-> FALSE,
               curv |-> FALSE, upd |-> 0, info |-> 0, recomputed |-> FALSE, decomposed |-> FALSE,
               rescomputed |-> FALSE, ret |-> NoRet]
    /\ held = NoObject

NextCons ==
    \/ get_q
    \/ get_B

SpecCons == InitCons /\ [][NextCons]_vars

\* The one periodic axis of a periodicity with exactly one.
PeriodicAxis(pbc) == CHOOSE j \in 1..3 : pbc[j]

\* First Jacobian row behind the translation rows (1-based).
FirstRot(c) == c.ninternal + c.ntrans + 1

\* C11 as stated: on a layer built with rotation projection for a system
\* periodic along exactly one axis, the one rotation axis is the normalised
\* cell vector of the periodic axis, and the rotation row a gradient-level
\* update leaves is built around that axis.
C11_Stated ==
    (cfg.kind = "cons" /\ cfg.built /\ cfg.nrot = 1)
    => LET axis == normalize(Cell[PeriodicAxis(cfg.args.pbc)])
       IN /\ cfg.rot_axes[1] = axis
          /\ (call.op = "get_B" /\ call.info = 0)
               => eng.dq[FirstRot(cfg)]
                  = mgs(<<[j \in 1..cfg.natoms |-> cross(axis, eng.pos[j])]>>,
                        cfg.trans_dirs, cfg.natoms).vecs[1]

\* The number of rotation vectors the request and the periodicity call for.
RotCount(proj_rot, npbc) ==
    IF ~proj_rot THEN 0 ELSE IF npbc = 0 THEN 3 ELSE IF npbc = 1 THEN 1 ELSE 0

\* C12 as stated: every construction of the layer succeeds; nrot is 3, 1 or 0
\* by the request and the number of periodic axes; a pinned Cartesian
\* coordinate forces nrot 0 and the projection off, with a warning exactly
\* when rotation would otherwise have been active; an unconstrained
\* non-periodic system with both projections has nrot = 3 and ntrans = 3.
C12_Stated ==
    cfg.kind = "cons"
    => LET a == cfg.args
           wanted == RotCount(a.proj_rot, NPbc(a.pbc))
       IN /\ cfg.built
          /\ cfg.nrot = (IF cfg.ncart > 0 THEN 0 ELSE wanted)
          /\ cfg.ncart > 0 => (~cfg.proj_rot /\ (cfg.warned <=> wanted > 0))
          /\ (cfg.ncart = 0 /\ NPbc(a.pbc) = 0 /\ a.proj_rot /\ a.proj_trans)
               => (cfg.nrot = 3 /\ cfg.ntrans = 3)

\* The axes (1-based) that carry no pinned Cartesian coordinate.
FreeAxes(cart) ==
    {j \in 1..3 : \A n \in 1..Len(cart) : cart[n][1] + 1 # j}

\* The t-th smallest element of a set of axes.
NthAxis(S, t) ==
    CHOOSE j \in S : Cardinality({i \in S : i < j}) = t - 1

\* C13: on every constructed layer ntrans is the number of axes with no pinned
\* Cartesian coordinate when translation projection is requested and 0 when
\* it is not; translation vector t has 1/sqrt(natoms) on its axis for every
\* atom and 0 elsewhere; the projection flag is off when ntrans is 0.
C13_Translations ==
    (cfg.kind = "cons" /\ cfg.built)
    => LET a == cfg.args
           free == FreeAxes(a.cart)
       IN /\ cfg.ntrans = (IF a.proj_trans THEN Cardinality(free) ELSE 0)
          /\ \A t \in 1..cfg.ntrans : \A i \in 1..cfg.natoms : \A j \in 1..3 :
                cfg.tvecs[t][i][j] = (IF j = NthAxis(free, t) THEN InvSqrtFix(cfg.natoms) ELSE 0)
          /\ cfg.ntrans = 0 => ~cfg.proj_trans
          /\ cfg.ntrans > 0 => cfg.proj_trans

\* C13 witness: a layer constructed with translation projection over a system
\* with one pinned coordinate has two translation vectors, and has served a
\* gradient-level call.
C13_Witness ==
    /\ cfg.kind = "cons" /\ cfg.built
    /\ cfg.args.proj_trans /\ cfg.ncart = 1 /\ cfg.ntrans = 2
    /\ call.op = "get_B" /\ call.info = 0

\* ------------------------------------------------------- Hessian guess

\* ase.data.covalent_radii, in hundredths of an Angstrom: every real atom
\* of the modelled systems is a carbon atom, a dummy atom has the radius of
\* element 0.
RCovReal == 76

RCovDummy == 20

\* CartToInternal.__cinit__: rcov[i] of atom i (0-based).
RCov(c, i) == IF i < c.nreal THEN RCovReal ELSE RCovDummy

\* guess_hessian: nbonds[i] of atom i (0-based), the number of entries of
\* the bond list that name it; dinds is -1 for every atom of the modelled
\* objects, so the loop over dinds adds nothing.
BondCount(c, i) ==
    Cardinality({<<n, k>> \in (1..c.nbonds) \X (1..2) : c.bonds[n][k] = i})

\* A value of the guess is kept by the formula that produced it, the
\* squared distances r2 and radius sums rcov and the count L it was given,
\* and the class of the double it is: "pos", "neg", "zero", "inf" or "nan".
H0(form, r2, rcov, L, val, cls) ==
    [form |-> form, r2 |-> r2, rcov |-> rcov, L |-> L, val |-> val, cls |-> cls]

\* h0[n] = h0cart
_h0_cart(h0cart) ==
    H0("cart", <<>>, <<>>, 0, h0cart,
       IF h0cart > 0 THEN "pos" ELSE IF h0cart < 0 THEN "neg" ELSE "zero")

\* _h0_bond: Ab * exp(-Bb * (rab - rcovab)) * conv, a positive number.
_h0_bond(rab2, rcovab) ==
    H0("bond", <<rab2>>, <<rcovab>>, 0, 0, "pos")

\* _h0_angle: (Aa + Ba * exp(..) / (rcovab * rcovbc)**Da) * conv, a positive
\* number for positive radii.
_h0_angle(rab2, rbc2, rcovab, rcovbc) ==
    H0("angle", <<rab2, rbc2>>, <<rcovab, rcovbc>>, 0, 0, "pos")

\* _h0_dihedral: (At + Bt * L**Dt * exp(..) / (rbc * rcovbc)**Et) * conv.
\* L**Dt with Dt = 0.57 is not a number for a negative L; the quotient is
\* 0/0 for L = 0 at rbc = 0 and infinite for L > 0 at rbc = 0.
_h0_dihedral(rbc2, rcovbc, L) ==
    H0("dihedral", <<rbc2>>, <<rcovbc>>, L, 0,
       IF L < 0 THEN "nan"
       ELSE IF rbc2 = 0 THEN (IF L = 0 THEN "nan" ELSE "inf")
       ELSE "pos")

\* np.abs on one value.
np_abs(h) ==
    [h EXCEPT !.val = Abs(@), !.cls = IF @ = "neg" THEN "pos" ELSE @]

\* atoms.get_all_distances()[a, b] (0-based), squared.
Rij2(P, a, b) == Norm2(VSub(P[a + 1], P[b + 1]))

\* guess_hessian, the loops over the six families: h0 before np.abs, for
\* the atoms at positions P.
H0Loops(c, P, h0cart) ==
    LET Pair(ix) == _h0_bond(Rij2(P, ix[1], ix[2]), RCov(c, ix[1]) + RCov(c, ix[2]))
        Tri(ix) == _h0_angle(Rij2(P, ix[1], ix[2]), Rij2(P, ix[2], ix[3]),
                             RCov(c, ix[1]) + RCov(c, ix[2]), RCov(c, ix[2]) + RCov(c, ix[3]))
        Tors(ix) == _h0_dihedral(Rij2(P, ix[2], ix[3]), RCov(c, ix[2]) + RCov(c, ix[3]),
                                 BondCount(c, ix[2]) + BondCount(c, ix[3]) - 2)
    IN [i \in 1..c.ncart |-> _h0_cart(h0cart)]
       \o [i \in 1..c.nbonds |-> Pair(c.bonds[i])]
       \o [i \in 1..c.nangles |-> Tri(c.angles[i])]
       \o [i \in 1..c.ndihedrals |-> Tors(c.dihedrals[i])]
       \o [i \in 1..c.nangle_sums |-> Tri(c.angle_sums[i])]
       \o [i \in 1..c.nangle_diffs |-> Tri(c.angle_diffs[i])]

\* np.diag of a vector: a square matrix kept by its diagonal.
np_diag(v) == [rows |-> Len(v), cols |-> Len(v), tag |-> "diag", of |-> v]

\* What a call that raises leaves in the place of a returned object.
Raised(error) == [rows |-> 0, cols |-> 0, tag |-> error, of |-> <<>>]

\* CartToInternal.guess_hessian on the arguments inp (atoms, dummies) and
\* h0cart: the matrix returned, or the error raised.  h0 has nq entries, all
\* zero before the loops fill it.
CartToInternal_guess_hessian(c, inp, h0cart) ==
    IF (~inp.dgiven \/ Len(inp.dummypos) = 0) /\ c.ndummies > 0 THEN Raised("ValueError")
    ELSE IF Len(inp.pos) # c.nreal THEN Raised("ValueError")
    ELSE IF inp.dgiven /\ Len(inp.dummypos) # c.ndummies THEN Raised("ValueError")
    ELSE LET loops == H0Loops(c, Requested(inp), h0cart)
             h0 == [n \in 1..c.nq |-> IF n <= Len(loops) THEN loops[n]
                                      ELSE H0("none", <<>>, <<>>, 0, 0, "zero")]
         IN np_diag([n \in 1..c.nq |-> np_abs(h0[n])])

\* A layer that leaves guess_hessian as its base class has it.
guess_inherited(c, inp, h0cart) ==
    CartToInternal_guess_hessian(c, inp, h0cart)

\* Constraints.guess_hessian
Constraints_guess_hessian(c, inp, h0cart) ==
    Raised("NotImplementedError")

\* The guess_hessian of the class of the object.
GuessHessian(c, inp, h0cart) ==
    IF c.kind = "cons" THEN Constraints_guess_hessian(c, inp, h0cart)
    ELSE CartToInternal_guess_hessian(c, inp, h0cart)

\* The values of h0cart a caller passes: the default and its negative.
H0Cart == {70, -70}

\* The atoms objects a caller passes: positions are three wide.
AtomsInputs(c) == {inp \in Inputs(c) : inp.pw = 3 /\ inp.dw = 3}

\* guess_hessian
guess_hessian ==
    /\ cfg.built
    /\ call.n < MaxCalls
    /\ \E inp \in AtomsInputs(cfg), h0cart \in H0Cart :
         LET ret == GuessHessian(cfg, inp, h0cart)
             o == [info |-> IF ret.tag = "diag" THEN 0 ELSE -1, recomputed |-> FALSE]
         IN call' = CallRec("guess_hessian", inp @@ [h0cart |-> h0cart], FALSE, FALSE, 0, o,
                            FALSE, FALSE, ret)
    /\ held' = NoObject
    /\ UNCHANGED <<cfg, eng>>

\* ---------------------------------------------------- bad-geometry check

\* CartToInternal.__cinit__: atol, the default of 15 degrees.
ATol == 15

\* One lattice step of a geometry, in hundredths of an Angstrom.
LatticeUnit == 50

\* Largest factor by which a geometry handed to the check is stretched.
MaxScale == 4

\* CartToInternal.__cinit__: bmat[i, j] (0-based) is set for the two atoms
\* of every bond, in both orders.
bmat(c, i, j) ==
    \E n \in 1..c.nbonds : \/ (c.bonds[n][1] = i /\ c.bonds[n][2] = j)
                           \/ (c.bonds[n][1] = j /\ c.bonds[n][2] = i)

\* dist < factr * (rcov[i] + rcov[j]) for atoms at squared lattice distance
\* d2, with factr = 0.5 = 2/4 or 1.25 = 5/4; both sides are not negative.
TooClose(d2, bonded, rsum) ==
    LET f4 == IF bonded THEN 2 ELSE 5
    IN 16 * d2 * LatticeUnit * LatticeUnit < f4 * f4 * rsum * rsum

\* check_for_bad_internal after its update: the loop over the angles on the
\* cached values q1, then the loop over the pairs of real atoms on the
\* cached positions; either loop stops at the first bad entry.
BadInternal(e, c) ==
    LET start == c.ncart + c.nbonds
        badangle == \E i \in 1..c.nangles :
                        ~(ATol < e.q1[start + i] /\ e.q1[start + i] < PI - ATol)
        badpair == \E i \in 0..(c.nreal - 2) : \E j \in (i + 1)..(c.nreal - 1) :
                        TooClose(Norm2(VSub(e.pos[i + 1], e.pos[j + 1])), bmat(c, i, j),
                                 RCov(c, i) + RCov(c, j))
    IN badangle \/ badpair

\* The geometry G with every atom k times as far from the origin.
Stretch(G, k) == [a \in 1..Len(G) |-> VScale(k, G[a])]

\* The geometry G with its last atom put on the line through the first
\* two, behind the first.
LastOnLine(G) ==
    [G EXCEPT ![Len(G)] = VSub(VScale(2, G[1]), G[2])]

\* The calls of the check on an object of configuration c: the calls of
\* every accessor, and its geometries stretched, also with the last atom
\* moved.
CheckInputs(c) ==
    Inputs(c)
    \cup {MkInput(Stretch(G, k), c.nreal, c.nreal, TRUE, 3, 3) :
             G \in Geoms(c.natoms) \cup (IF c.natoms > 2 THEN {LastOnLine(Regular(c.natoms))} ELSE {}),
             k \in 2..MaxScale}

\* The boolean a call returns.
np_bool(b) == [rows |-> 1, cols |-> 1, tag |-> "bool", of |-> b]

\* CartToInternal.check_for_bad_internal
check_for_bad_internal ==
    /\ cfg.built
    /\ call.n < MaxCalls
    /\ \E inp \in CheckInputs(cfg), sddq0 \in UninitStrides(cfg) :
         \E oobp \in OobOutcomes(eng, cfg, inp) :
           LET Checked(o) ==
                 /\ eng' = o.e
                 /\ call' = CallRec("check_for_bad_internal", inp, FALSE, FALSE, o.info, o,
                                    FALSE, FALSE,
                                    IF o.info < 0 THEN Raised("RuntimeError")
                                    ELSE np_bool(BadInternal(o.e, cfg)))
           IN Checked(_update(eng, cfg, inp, FALSE, FALSE, FALSE, oobp, sddq0))
    /\ held' = NoObject
    /\ UNCHANGED cfg

\* The objects the Hessian guess and the check are called on: the objects
\* of CtorArgs, a bonded and a free pair of atoms, a dihedral without its
\* bonds, and a layer with no coordinate over two atoms.
CtorArgsAux ==
    CtorArgs
    \cup {Args("base", 2, 0, <<>>, <<<<0, 1>>>>, <<>>, <<>>, <<>>, <<>>, <<>>, FALSE, FALSE, NoPbc),
          Args("base", 3, 0, <<<<0, 0>>>>, <<>>, <<<<0, 2, 1>>>>, <<>>, <<>>, <<>>, <<>>, FALSE, FALSE, NoPbc),
          Args("base", 4, 0, <<>>, <<>>, <<>>, <<<<0, 1, 2, 3>>>>, <<>>, <<>>, <<>>, FALSE, FALSE, NoPbc),
          Args("cons", 2, 0, <<>>, <<>>, <<>>, <<>>, <<>>, <<>>, <<>>, FALSE, FALSE, NoPbc)}

InitAux ==
    /\ \E a \in CtorArgsAux : \E byrow \in IndexOutcomes(a) : cfg = Construct(a, byrow)
    /\ eng = InitEngine(cfg)
    /\ call = [n |-> 0, op |-> "init", inp |-> MkInput(<<>>, 0, 0, FALSE, 3, 3), grad |-> FALSE,
               curv |-> FALSE, upd |-> 0, info |-> 0, recomputed |-> FALSE, decomposed |-> FALSE,
               rescomputed |-> FALSE, ret |-> NoRet]
    /\ held = NoObject

NextAux ==
    \/ get_q
    \/ get_B
    \/ guess_hessian
    \/ check_for_bad_internal

SpecAux == InitAux /\ [][NextAux]_vars

\* C14: every call of guess_hessian on a constraint layer, whatever its
\* arguments and whatever the state of the cache, raises the
\* unsupported-operation error and leaves the cached state as it was.
C14_Unsupported ==
    [][(call'.op = "guess_hessian" /\ call'.n = call.n + 1 /\ cfg.kind = "cons")
       => (call'.ret.tag = "NotImplementedError" /\ call'.info < 0 /\ eng' = eng)]_vars

\* C14 witness: guess_hessian has been called on a layer whose cache holds
\* a successful gradient-level update.
C14_Witness ==
    /\ cfg.kind = "cons" /\ cfg.nq > 0
    /\ call.op = "guess_hessian" /\ call.n = 2
    /\ ~eng.calc_required /\ eng.grad

\* The atoms (0-based) of coordinate n (1-based) of configuration c.
CoordAtoms(c, n) == FamList(c, FamOf(c, n))[n - FamStart(c, FamOf(c, n))]

\* C15 as stated: every guess_hessian the base engine returns is an nq x nq
\* diagonal matrix with one entry per coordinate in the family order, each
\* entry the absolute value of the formula of its family and strictly
\* positive; Cartesian entries are h0cart, dihedral entries are computed
\* with L = bondCount(atom2) + bondCount(atom3) - 2.
C15_Stated ==
    (cfg.kind = "base" /\ call.op = "guess_hessian" /\ call.info = 0)
    => /\ call.ret.tag = "diag" /\ call.ret.rows = cfg.nq /\ call.ret.cols = cfg.nq
       /\ \A n \in 1..cfg.nq :
            LET h == call.ret.of[n]
                f == FamOf(cfg, n)
                ix == CoordAtoms(cfg, n)
            IN /\ h.cls = "pos"
               /\ h.form = (CASE f = "cart" -> "cart" [] f = "bonds" -> "bond"
                               [] f = "dihedrals" -> "dihedral" [] OTHER -> "angle")
               /\ f = "cart" => h.val = call.inp.h0cart
               /\ f = "dihedrals" => h.L = BondCount(cfg, ix[2]) + BondCount(cfg, ix[3]) - 2

\* Some 3-atom angle coordinate of c has, at the positions P, a value that
\* is not strictly between atol and pi - atol.
AngleOutOfRange(c, P) ==
    \E i \in 1..c.nangles :
        LET q == EvalCoord(c, P, c.ncart + c.nbonds + i, FALSE, FALSE).q
        IN ~(ATol < q /\ q < PI - ATol)

\* Some two distinct real atoms of c are, at the positions P, closer than f
\* times the sum of their covalent radii, f = 0.5 for a pair of the bond
\* list and 1.25 for any other (2 d < s and 4 d < 5 s, squared).
PairTooClose(c, P) ==
    \E i \in 1..c.nreal, j \in 1..c.nreal :
        /\ i < j
        /\ LET d2 == Norm2(VSub(P[i], P[j])) * LatticeUnit * LatticeUnit
               s == 2 * RCovReal
               listed == \E n \in 1..c.nbonds : {c.bonds[n][1], c.bonds[n][2]} = {i - 1, j - 1}
           IN IF listed THEN 4 * d2 < s * s ELSE 16 * d2 < 25 * s * s

\* C16 as stated: a check that returns, returns true exactly when an angle
\* is out of range or two real atoms are too close at the positions it was
\* given; and two checks that differ in the dummy positions only return
\* the same.
C16_Stated ==
    /\ [](( call.op = "check_for_bad_internal" /\ call.info = 0)
           => (call.ret.of <=> (\/ AngleOutOfRange(cfg, Requested(call.inp))
                                \/ PairTooClose(cfg, Requested(call.inp)))))
    /\ [][(/\ call.op = "check_for_bad_internal" /\ call.info = 0
           /\ call'.op = "check_for_bad_internal" /\ call'.info = 0
           /\ call'.inp.pos = call.inp.pos)
          => call'.ret.of = call.ret.of]_vars

\* ------------------------------------------------- the D2q handle

\* D2q.__cinit__: nq of the handle, the number of its blocks.
D2q_nq(c) == c.nbonds + c.nangles + c.ndihedrals + c.nangle_sums + c.nangle_diffs

\* The blocks of family f in the data D of a handle.
HandleBlocks(D, f) ==
    CASE f = "bonds" -> D.Dbonds
      [] f = "angles" -> D.Dangles
      [] f = "dihedrals" -> D.Ddihedrals
      [] f = "angle_sums" -> D.Dangle_sums
      [] f = "angle_diffs" -> D.Dangle_diffs

\* work[a, :] = v[3*ai : 3*(ai+1)] for the atoms ix of one coordinate.
Gather(v, ix) == [a \in 1..Len(ix) |-> [i \in 1..3 |-> v[3 * ix[a] + i]]]

\* dgemv('N', dim, dim, 1, D2[n], dim, x, 1, 0, y, 1): the block, stored row
\* by row, read column by column.
dgemv(B, x) ==
    LET k == Len(x)
    IN [b \in 1..k |-> [j \in 1..3 |->
          SeqSum([t \in 1..(3 * k) |->
                    B[((t - 1) \div 3) + 1][((t - 1) % 3) + 1][b][j]
                    * x[((t - 1) \div 3) + 1][((t - 1) % 3) + 1]])]]

\* ddot of BLAS on two work arrays.
blas_ddot(x, y) ==
    SeqSum([t \in 1..(3 * Len(x)) |->
              x[((t - 1) \div 3) + 1][((t - 1) % 3) + 1] * y[((t - 1) \div 3) + 1][((t - 1) % 3) + 1]])

\* An output array, or the error that ended the loops.
Out(ok, of) == [ok |-> ok, of |-> of]

\* D2q._dd on the family with index list q and blocks D2, from offset start
\* on: res[start + n] is written for every n, and a write behind the end of
\* res raises.
_dd(start, q, D2, v1, v2, res) ==
    IF ~res.ok THEN res
    ELSE IF \E n \in 1..Len(q) : start + n > Len(res.of) THEN Out(FALSE, <<>>)
    ELSE Out(TRUE, [m \in 1..Len(res.of) |->
                      IF m > start /\ m <= start + Len(q)
                      THEN blas_ddot(Gather(v2, q[m - start]),
                                     dgemv(D2[m - start], Gather(v1, q[m - start])))
                      ELSE res.of[m]])

\* Offsets that count the families of the handle only.
BlockStart(c, f) == FamStart(c, f) - c.ncart

\* D2q.ldot, D2q.ddot: the offset m at the call for family f, ncart before
\* the first family and the count of each family added after its call.
D2q_start(c, f) == FamStart(c, f)

\* D2q.ddot
D2q_ddot(c, D, v1, v2) ==
    IF Len(v1) # c.nx \/ Len(v2) # c.nx THEN Raised("AssertionError")
    ELSE LET Step(f, r) == _dd(D2q_start(c, f), FamList(c, f), HandleBlocks(D, f), v1, v2, r)
             res == Step("angle_diffs", Step("angle_sums", Step("dihedrals", Step("angles",
                        Step("bonds", Out(TRUE, [m \in 1..D2q_nq(c) |-> 0]))))))
         IN IF res.ok THEN [rows |-> Len(res.of), cols |-> 1, tag |-> "array", of |-> res.of]
            ELSE Raised("IndexError")

\* D2q._ld: res[ai, i, bi, :] += v[start + n] * D2[n, a, i, b, :] for every
\* coordinate n of the family and every two of its atoms; a read behind the
\* end of v raises.
_ld(start, q, D2, v, res) ==
    IF ~res.ok THEN res
    ELSE IF \E n \in 1..Len(q) : start + n > Len(v) THEN Out(FALSE, <<>>)
    ELSE Out(TRUE,
             [A \in 1..Len(res.of) |-> [i \in 1..3 |-> [B \in 1..Len(res.of) |-> [j \in 1..3 |->
                 res.of[A][i][B][j]
                 + SeqSum([n \in 1..Len(q) |->
                     SeqSum([t \in 1..(Len(q[n]) * Len(q[n])) |->
                         LET a == ((t - 1) \div Len(q[n])) + 1
                             b == ((t - 1) % Len(q[n])) + 1
                         IN IF q[n][a] + 1 = A /\ q[n][b] + 1 = B
                            THEN v[start + n] * D2[n][a][i][b][j] ELSE 0])])]]]])

\* result_np.reshape((nx, nx))
Reshape(R) ==
    [r \in 1..(3 * Len(R)) |-> [s \in 1..(3 * Len(R)) |->
        R[((r - 1) \div 3) + 1][((r - 1) % 3) + 1][((s - 1) \div 3) + 1][((s - 1) % 3) + 1]]]

\* D2q.ldot
D2q_ldot(c, D, v) ==
    LET Step(f, r) == _ld(D2q_start(c, f), FamList(c, f), HandleBlocks(D, f), v, r)
        zero == [A \in 1..c.natoms |-> [i \in 1..3 |-> [B \in 1..c.natoms |-> [j \in 1..3 |-> 0]]]]
        res == Step("angle_diffs", Step("angle_sums", Step("dihedrals", Step("angles",
                   Step("bonds", Out(TRUE, zero))))))
    IN IF res.ok THEN [rows |-> c.nx, cols |-> c.nx, tag |-> "array", of |-> Reshape(res.of)]
       ELSE Raised("IndexError")

\* Unit vector number t of length n.
Unit(n, t) == [m \in 1..n |-> IF m = t THEN 1 ELSE 0]

\* The vectors of length n handed to a product: the unit vectors, the vector
\* of ones and a vector of mixed signs; and one vector that is too short.
Vectors(n) ==
    {Unit(n, t) : t \in 1..n}
    \cup {[m \in 1..n |-> 1], [m \in 1..n |-> IF m % 2 = 0 THEN -1 ELSE 2]}
    \cup {[m \in 1..(n - 1) |-> 1]}

\* What a call on the held handle leaves behind.
OnHandle(op, inp, ret) ==
    /\ call' = CallRec(op, inp, FALSE, FALSE, 0,
                       [info |-> IF ret.tag = "array" THEN 0 ELSE -1, recomputed |-> FALSE],
                       FALSE, FALSE, ret)
    /\ UNCHANGED <<cfg, eng, held>>

\* D2q.ddot on the handle the caller holds
ddot ==
    /\ held.kind = "D"
    /\ call.n <= MaxCalls
    /\ call.op = "get_D"
    /\ \E v1 \in Vectors(cfg.nx), v2 \in Vectors(cfg.nx) :
         OnHandle("ddot", [v1 |-> v1, v2 |-> v2], D2q_ddot(cfg, View(held, eng), v1, v2))

\* D2q.ldot on the handle the caller holds
ldot ==
    /\ held.kind = "D"
    /\ call.n <= MaxCalls
    /\ call.op = "get_D"
    /\ \E v \in Vectors(cfg.nq) :
         OnHandle("ldot", [v |-> v], D2q_ldot(cfg, View(held, eng), v))

\* D2q._rd on the family with index list q and blocks D2, from offset start
\* on: row start + n of res gets, at every atom of coordinate n, the part of
\* the product that belongs to it (a later atom of the same number writes
\* over an earlier one); a write behind the last row of res raises.
_rd(start, q, D2, v, res) ==
    IF ~res.ok THEN res
    ELSE IF \E n \in 1..Len(q) : start + n > Len(res.of) THEN Out(FALSE, <<>>)
    ELSE Out(TRUE, [m \in 1..Len(res.of) |->
                      IF m > start /\ m <= start + Len(q)
                      THEN LET ix == q[m - start]
                               work2 == dgemv(D2[m - start], Gather(v, ix))
                               Last(A) == CHOOSE a \in 1..Len(ix) :
                                              /\ ix[a] + 1 = A
                                              /\ \A b \in (a + 1)..Len(ix) : ix[b] + 1 # A
                           IN [A \in 1..Len(res.of[m]) |->
                                 IF \E a \in 1..Len(ix) : ix[a] + 1 = A
                                 THEN work2[Last(A)] ELSE res.of[m][A]]
                      ELSE res.of[m]])

\* D2q.rdot
D2q_rdot(c, D, v) ==
    IF Len(v) # c.nx THEN Raised("AssertionError")
    ELSE LET Step(f, r) == _rd(D2q_start(c, f), FamList(c, f), HandleBlocks(D, f), v, r)
             res == Step("angle_diffs", Step("angle_sums", Step("dihedrals", Step("angles",
                        Step("bonds", Out(TRUE, [m \in 1..D2q_nq(c) |-> ZeroRow(c.natoms)]))))))
         IN IF res.ok
            THEN [rows |-> Len(res.of), cols |-> c.nx, tag |-> "array",
                  of |-> [m \in 1..Len(res.of) |-> Flat(res.of[m])]]
            ELSE Raised("IndexError")

\* D2q.rdot on the handle the caller holds
rdot ==
    /\ held.kind = "D"
    /\ call.n <= MaxCalls
    /\ call.op = "get_D"
    /\ \E v \in Vectors(cfg.nx) :
         OnHandle("rdot", [v1 |-> v, v2 |-> v], D2q_rdot(cfg, View(held, eng), v))

NextD2q ==
    \/ get_D
    \/ ddot
    \/ ldot
    \/ rdot

SpecD2q == InitAux /\ [][NextD2q]_vars

\* The local second-derivative block of coordinate n (1-based, over all
\* families) of the engine: zero for a Cartesian coordinate.
LocalBlock(e, c, n) ==
    IF FamOf(c, n) = "cart" THEN ZeroBlock(1)
    ELSE Blocks(e, FamOf(c, n))[n - FamStart(c, FamOf(c, n))]

\* The 0-based atoms of coordinate n; a Cartesian coordinate has the one
\* atom of its entry.
DefiningAtoms(c, n) ==
    IF FamOf(c, n) = "cart" THEN <<CoordAtoms(c, n)[2]>> ELSE CoordAtoms(c, n)

\* v1_restricted' * block * v2_restricted for coordinate n.
Bilinear(e, c, n, v1, v2) ==
    LET at == DefiningAtoms(c, n)
        B == LocalBlock(e, c, n)
        k == Len(at)
        Row(t) == ((t - 1) \div (3 * k)) + 1
        Col(t) == ((t - 1) % (3 * k)) + 1
        At(r) == ((r - 1) \div 3) + 1
        Ax(r) == ((r - 1) % 3) + 1
    IN SeqSum([t \in 1..(9 * k * k) |->
          v1[3 * at[At(Row(t))] + Ax(Row(t))]
          * B[At(Row(t))][Ax(Row(t))][At(Col(t))][Ax(Col(t))]
          * v2[3 * at[At(Col(t))] + Ax(Col(t))]])

\* C17 as stated: for full-size vectors v1 and v2, ddot returns one scalar
\* per coordinate of the engine, and the scalar of every coordinate is the
\* bilinear form of its local block on the two restricted vectors.
C17_Stated ==
    (call.op = "ddot" /\ Len(call.inp.v1) = cfg.nx /\ Len(call.inp.v2) = cfg.nx)
    => /\ call.info = 0
       /\ call.ret.rows = NEval(cfg)
       /\ \A n \in 1..NEval(cfg) :
            call.ret.of[n] = Bilinear(eng, cfg, n, call.inp.v1, call.inp.v2)

\* v[n] times the block of coordinate n at the rows and columns of its
\* atoms, entry (r, s) of the nx x nx matrix.
Embedded(e, c, n, v, r, s) ==
    LET at == DefiningAtoms(c, n)
        B == LocalBlock(e, c, n)
        k == Len(at)
    IN SeqSum([t \in 1..(k * k) |->
          LET a == ((t - 1) \div k) + 1
              b == ((t - 1) % k) + 1
          IN IF at[a] = (r - 1) \div 3 /\ at[b] = (s - 1) \div 3
             THEN v[n] * B[a][((r - 1) % 3) + 1][b][((s - 1) % 3) + 1] ELSE 0])

\* Atoms A and B (0-based) are both atoms of one non-Cartesian coordinate.
Coupled(c, A, B) ==
    \E n \in (c.ncart + 1)..NEval(c) :
        LET at == CoordAtoms(c, n)
        IN (\E a \in 1..Len(at) : at[a] = A) /\ (\E b \in 1..Len(at) : at[b] = B)

\* C18: for a vector v with one coefficient per coordinate, ldot returns
\* the nx x nx matrix that is the sum over the coordinates of v[n] times the
\* embedded local block; Cartesian coordinates add nothing, and an entry
\* whose two atoms share no coordinate is zero.
C18_Embedding ==
    (call.op = "ldot" /\ Len(call.inp.v) = cfg.nq)
    => /\ call.info = 0
       /\ call.ret.rows = cfg.nx /\ call.ret.cols = cfg.nx
       /\ \A r \in 1..cfg.nx, s \in 1..cfg.nx :
            /\ call.ret.of[r][s]
                 = SeqSum([n \in 1..NEval(cfg) |-> Embedded(eng, cfg, n, call.inp.v, r, s)])
            /\ call.ret.of[r][s]
                 = SeqSum([n \in 1..(NEval(cfg) - cfg.ncart) |->
                             Embedded(eng, cfg, cfg.ncart + n, call.inp.v, r, s)])
            /\ ~Coupled(cfg, (r - 1) \div 3, (s - 1) \div 3) => call.ret.of[r][s] = 0

\* C18 witness: ldot has returned a matrix with a non-zero entry for an
\* engine that has a Cartesian coordinate in front of its other ones.
C18_Witness ==
    /\ call.op = "ldot" /\ call.info = 0
    /\ cfg.ncart > 0 /\ NEval(cfg) > cfg.ncart
    /\ \E r \in 1..cfg.nx, s \in 1..cfg.nx : call.ret.of[r][s] # 0

\* --------------------------------------------- the rows of the layer

\* The last call was an accessor whose gradient-level update succeeded.
GradientUpdated ==
    /\ call.op \in Accessors
    /\ call.grad /\ call.upd = 0 /\ call.info = 0

\* The rotation vectors for the snapshot of engine e: axis x position for
\* every atom, orthonormalised against the translation vectors.
RotationVectors(e, c) ==
    mgs([i \in 1..c.nrot |-> [j \in 1..c.natoms |-> cross(c.rot_axes[i], e.pos[j])]],
        c.trans_dirs, c.natoms).vecs

\* C19 as stated: after every successful gradient-level update of a layer,
\* whatever its projection flags, ninternal is the sum of the six family
\* counts, nq is ninternal + ntrans + nrot, the Jacobian rows behind the
\* internal ones are the translation vectors, and the nrot rows behind
\* those are the rotation vectors of the current positions.
C19_Stated ==
    (cfg.kind = "cons" /\ GradientUpdated)
    => /\ cfg.ninternal = NEval(cfg)
       /\ cfg.nq = cfg.ninternal + cfg.ntrans + cfg.nrot
       /\ \A t \in 1..cfg.ntrans : eng.dq[cfg.ninternal + t] = cfg.tvecs[t]
       /\ \A r \in 1..cfg.nrot :
            eng.dq[cfg.ninternal + cfg.ntrans + r] = RotationVectors(eng, cfg)[r]

\* The last call was an accessor whose update went past the cache test and
\* returned a failure status.
UpdateFailed ==
    /\ call.op \in Accessors
    /\ call.recomputed /\ call.upd < 0

\* C20 as stated: after an update that returned a failure status the cache
\* is not marked valid, and the next accessor call with the same arguments
\* goes past the cache test again.
C20_Stated ==
    /\ [](UpdateFailed => eng.calc_required)
    /\ [][(UpdateFailed /\ call'.op \in Accessors /\ call'.inp = call.inp)
          => call'.recomputed]_vars

\* The row of rdot for coordinate n: at each of its atoms the product of
\* its block with the restricted vector, zero at every other atom.
LocalRow(e, c, n, v) ==
    LET at == DefiningAtoms(c, n)
        B == LocalBlock(e, c, n)
        k == Len(at)
    IN [r \in 1..c.nx |->
          IF \E a \in 1..k : at[a] = (r - 1) \div 3
          THEN LET a == CHOOSE a \in 1..k : at[a] = (r - 1) \div 3
               IN SeqSum([t \in 1..(3 * k) |->
                     B[a][((r - 1) % 3) + 1][((t - 1) \div 3) + 1][((t - 1) % 3) + 1]
                     * v[3 * at[((t - 1) \div 3) + 1] + ((t - 1) % 3) + 1]])
          ELSE 0]

\* C21 as stated: on full-size vectors rdot and ddot return, without a write
\* outside their output, as many rows or entries as the engine has
\* coordinates, in the order of the engine; those of Cartesian coordinates
\* are zero, and a row of rdot is zero away from the atoms of its coordinate.
C21_Stated ==
    (call.op \in {"rdot", "ddot"} /\ Len(call.inp.v1) = cfg.nx /\ Len(call.inp.v2) = cfg.nx)
    => /\ call.info = 0
       /\ call.ret.rows = NEval(cfg)
       /\ \A n \in 1..NEval(cfg) :
            IF call.op = "ddot"
            THEN /\ call.ret.of[n] = Bilinear(eng, cfg, n, call.inp.v1, call.inp.v2)
                 /\ n <= cfg.ncart => call.ret.of[n] = 0
            ELSE /\ call.ret.of[n] = LocalRow(eng, cfg, n, call.inp.v1)
                 /\ n <= cfg.ncart => call.ret.of[n] = [r \in 1..cfg.nx |-> 0]
                 /\ \A r \in 1..cfg.nx :
                      (\A a \in 1..Len(DefiningAtoms(cfg, n)) :
                           DefiningAtoms(cfg, n)[a] # (r - 1) \div 3)
                      => call.ret.of[n][r] = 0

\* ------------------------------------------------- angle sums and differences

\* The angle evaluation of the atoms (i, j, k) (0-based) at the snapshot of
\* engine e, at the level of the flags of e.
AngleAt(e, c, i, j, k) ==
    cart_to_angle(c.natoms, i, j, k, VSub(e.pos[j + 1], e.pos[i + 1]), VSub(e.pos[k + 1], e.pos[j + 1]), e.grad, e.curv)

\* Entry (A, x, B, y) of the 4-atom block that holds the 3-atom block blk
\* alone, local atom a at host atom h[a] (1-based).
EmbedAngle(blk, h, A, x, B, y) ==
    SeqSum([t \in 1..9 |->
        LET a == ((t - 1) \div 3) + 1
            b == ((t - 1) % 3) + 1
        IN IF h[a] = A /\ h[b] = B THEN blk[a][x][b][y] ELSE 0])

\* The sign of the second angle in a coordinate of family f.
SignOf(f) == IF f = "angle_sums" THEN 1 ELSE -1

\* C22: in a valid cache, every angle-sum (sign +1) and angle-diff (sign -1)
\* coordinate on the atoms (a0, a1, a2, a3) has the value
\* angle(a0, a1, a3) + sign * angle(a2, a1, a3); when the gradient is held,
\* its row is the same combination of the rows of the two angles; when the
\* second derivatives are held, its 4-atom block is the block of the first
\* angle embedded under (0, 1, 2) -> (0, 1, 3) plus sign times the block of
\* the second angle embedded under (0, 1, 2) -> (2, 1, 3), and every entry
\* that couples host atoms 0 and 2 is zero.
C22_Combination ==
    ~eng.calc_required
    => \A f \in {"angle_sums", "angle_diffs"} : \A t \in 1..FamCount(cfg, f) :
         LET ix == FamList(cfg, f)[t]
             n == FamStart(cfg, f) + t
             A1 == AngleAt(eng, cfg, ix[1], ix[2], ix[4])
             A2 == AngleAt(eng, cfg, ix[3], ix[2], ix[4])
             blk == Blocks(eng, f)[t]
         IN /\ eng.q1[n] = A1.q + SignOf(f) * A2.q
            /\ eng.grad => \A a \in 1..cfg.natoms, x \in 1..3 :
                 eng.dq[n][a][x] = A1.dq[a][x] + SignOf(f) * A2.dq[a][x]
            /\ eng.curv => \A A \in 1..4, B \in 1..4, x \in 1..3, y \in 1..3 :
                 blk[A][x][B][y] = EmbedAngle(A1.d2q, <<1, 2, 4>>, A, x, B, y)
                                   + SignOf(f) * EmbedAngle(A2.d2q, <<3, 2, 4>>, A, x, B, y)
            /\ \A x \in 1..3, y \in 1..3 : blk[1][x][3][y] = 0 /\ blk[3][x][1][y] = 0

\* C22 witness: a valid cache at second-derivative level holds an angle
\* difference whose two angles are both regular and differ, whose block has
\* a non-zero entry on host atom 2 and a non-zero entry on host atom 0.
C22_Witness ==
    /\ ~eng.calc_required
    /\ eng.curv
    /\ cfg.nangle_diffs > 0
    /\ LET ix == cfg.angle_diffs[1]
           A1 == AngleAt(eng, cfg, ix[1], ix[2], ix[4])
           A2 == AngleAt(eng, cfg, ix[3], ix[2], ix[4])
           blk == eng.d2q_angle_diffs[1]
       IN /\ A1.info = 0 /\ A2.info = 0
          /\ A1.q # A2.q
          /\ eng.q1[FamStart(cfg, "angle_diffs") + 1] = A1.q - A2.q
          /\ \E x \in 1..3, y \in 1..3 : blk[3][x][3][y] # 0
          /\ \E x \in 1..3, y \in 1..3 : blk[1][x][1][y] # 0
          /\ \E x \in 1..3, y \in 1..3 : blk[2][x][4][y] # A1.d2q[2][x][3][y]

\* --------------------------------------------------------- accepted shapes

\* The comparison of the arguments inp against the snapshot, and the copy
\* of inp into the snapshot, stay inside both arrays and pair every row
\* with its own atom.
RowsInRange(c, inp) ==
    /\ \A i \in 1..c.nreal : i <= Len(inp.pos)
    /\ \A i \in 1..c.ndummies : i <= Len(inp.dummypos)
    /\ SliceAssign(c.nreal, inp.pos).rows = inp.pos
    /\ inp.dgiven => SliceAssign(c.ndummies, inp.dummypos).rows = inp.dummypos

\* C23 as stated: the arguments of every accessor call that the position
\* validation accepts have exactly nreal rows of positions and exactly
\* ndummies rows of dummy positions, so that neither the change detection
\* nor the snapshot copy leaves an array or pairs a row with another atom.
C23_Stated ==
    (call.op \in Accessors /\ _validate_pos(cfg, call.inp))
    => /\ Len(call.inp.pos) = cfg.nreal
       /\ Len(call.inp.dummypos) = cfg.ndummies
       /\ RowsInRange(cfg, call.inp)

\* ------------------------------------------------------ returned residuals

\* The residual and reduction-matrix accessors of the constraint layer,
\* with a caller that writes into what it was given.
NextRes ==
    \/ get_q
    \/ get_res
    \/ get_Ured
    \/ MutateHeld

SpecRes == Init /\ [][NextRes]_vars

\* C24 as stated: a write of the caller into the residual get_res returned
\* or into the matrix get_Ured returned leaves the residual buffer and the
\* reduction matrix of the instance as they were; the get_res call that
\* follows the write at the same positions, and the get_Ured call that
\* follows it, do not return what the caller wrote.
C24_Stated ==
    /\ [][(call'.op = "mutate" /\ held.kind \in {"res", "Ured"})
          => (eng'.res = eng.res /\ eng'.Ured = eng.Ured)]_vars
    /\ [][(/\ call.op = "mutate" /\ held.mutated
           /\ \/ held.kind = "res" /\ call'.op = "get_res" /\ call'.info = 0 /\ call'.inp = call.inp
              \/ held.kind = "Ured" /\ call'.op = "get_Ured")
          => View(held', eng') # held.expect]_vars

====
